---- MODULE Spec2Model ----
(***************************************************************************)
(* Model of the Twinkle CLI build commands (internal/cli/build.go) and of  *)
(* the API client calls they make (internal/api, held in the package api   *)
(* part of src/internal/cli/output.go).                                    *)
(*                                                                         *)
(* One invocation of `build upload` / `ship` or `build wait` is one run of *)
(* the state machine.  RunE is sequential; it is cut at its suspension     *)
(* points: every remote call is in flight between the state that issues it *)
(* and the action that returns from it, and the inter-poll sleep of        *)
(* pollBuildStatus is a state of its own.  The context may be cancelled at *)
(* any of these points.  Time is a clock in milliseconds that advances     *)
(* while a status query is in flight and while the loop sleeps.            *)
(***************************************************************************)
EXTENDS Integers, Sequences, FiniteSets, TLC

VARIABLES
    pc,           \* position of the run: prerun, start, creating, transferring, completing, querying, sleeping, done
    cmd,          \* "upload" (build upload / ship) or "wait" (build wait)
    wait,         \* --wait flag of the upload command
    timeout,      \* --timeout flag, seconds
    jsonOut,      \* --json
    verbose,      \* --verbose
    file,         \* kind of the <file> argument of the upload command
    now,          \* the clock, milliseconds
    cancelled,    \* ctx.Done() is closed
    deadline,     \* pollBuildStatus: deadline (ZeroTime when none)
    pollStart,    \* time pollBuildStatus was entered (ZeroTime before)
    waitURL,      \* pollBuildStatus: the waitURL argument
    resp,         \* pollBuildStatus: resp of the current iteration
    nextInterval, \* pollBuildStatus: the duration handed to time.After
    pollRet,      \* what pollBuildStatus returned: [returned, resp, err, at]
    cmdErr,       \* what RunE returned ("running" until it returns)
    rendered,     \* payload handed to renderOutput: none, complete, build
    lastErr,      \* err of the remote call that returned last
    cancelAt,     \* where RunE was when the context was cancelled: [pc, n], n = Len(log)
    log,          \* calls, their returns, progress lines and sleeps so far, in order
    apiKeyFlag,   \* --api-key, as its characters
    apiKeyEnv,    \* TWINKLE_API_KEY, as its characters
    baseURL,      \* the base URL after flag, environment and default
    client,       \* AppContext.Client: <<>> is nil, <<c>> points to the Client c
    sent,         \* the create-upload requests made through the client, in order
    records,      \* the build records of the server: [key, build]
    uuids,        \* number of uuid.NewString() calls so far
    values,       \* formatProcessingErrors: its argument, an error tree
    lines,        \* formatProcessingErrors: what two calls on `values` returned (<<>> before)
    buildResp,    \* printBuildResponse: its resp argument
    out,          \* printBuildResponse: the lines written to cmd.OutOrStdout()
    id,           \* a BuildID: [value]
    marshalled,   \* id.MarshalJSON(): <<>> before the call, then [data, err]
    data,         \* the JSON text handed to UnmarshalJSON, as its characters
    decoded,      \* a zero BuildID after UnmarshalJSON(data): <<>> before the call, then [value, err]
    httpClient,   \* the http.Client of the api client: [Timeout], 0 for none
    requests,     \* the requests the api client handed to an http.Client, in order
    uploads       \* per UploadFile call, what it did with the file and the request, in order

vars == <<pc, cmd, wait, timeout, jsonOut, verbose, file, now, cancelled, deadline,
          pollStart, waitURL, resp, nextInterval, pollRet, cmdErr, rendered, lastErr,
          cancelAt, log, apiKeyFlag, apiKeyEnv, baseURL, client, sent, records, uuids,
          values, lines, buildResp, out, id, marshalled, data, decoded, httpClient,
          requests, uploads>>

\* the flags and arguments of the invocation
inputs == <<cmd, wait, timeout, jsonOut, verbose, file>>

\* what the root command holds: its key and URL settings and the client it built
rootVars == <<apiKeyFlag, apiKeyEnv, baseURL, client>>

\* what the api package and the output functions are checked with on their
\* own: the create-upload requests of a client and the server they reach, an
\* error tree and its lines, a response and its rendering
libVars == <<sent, records, uuids, values, lines, buildResp, out>>

\* what the types and calls of the api package are checked with on their own
idVars == <<id, marshalled, data, decoded>>

\* the BuildID and the requests of the api client
apiVars == <<id, marshalled, data, decoded, httpClient, requests, uploads>>

\* the locals of pollBuildStatus
pollVars == <<now, deadline, pollStart, waitURL, resp, nextInterval, pollRet>>

----------------------------------------------------------------------------
(* Bounds of the model *)

\* largest valid --timeout explored, in seconds
MaxTimeout == 2

\* status queries explored when there is no deadline (timeout = 0)
MaxQueries == 3

\* create-upload calls explored on one client
MaxCalls == 3

----------------------------------------------------------------------------
(* Constants of the program *)

\* time.Millisecond, the unit of the clock
Millisecond == 1

Second == 1000 * Millisecond

\* const defaultTimeout = 30 * time.Second
defaultTimeout == 30 * Second

\* const defaultWaitTimeout = defaultTimeout + 10*time.Second
defaultWaitTimeout == defaultTimeout + 10 * Second

\* const pollInterval = 5 * time.Second
pollInterval == 5 * Second

\* the upper limit of the --timeout flag
TimeoutLimit == 300

\* time.Time{}: the zero time; the clock starts after it
ZeroTime == 0

\* error values
NoErr == "nil"

ErrCanceled == "context canceled"

\* api.BuildResponse{}: the zero response
EmptyResponse == [status |-> "", PollAfterMs |-> <<>>]

\* values of a decoded JSON document (interface{}): a string, a number, nil,
\* []interface{}, []string, map[string]interface{}
Str(x) == [t |-> "string", v |-> x]

Num(n) == [t |-> "number", v |-> n]

Null == [t |-> "nil", v |-> 0]

List(items) == [t |-> "list", v |-> items]

Strs(items) == [t |-> "strings", v |-> items]

Map(m) == [t |-> "map", v |-> m]

\* api.BuildResponse{} as printBuildResponse reads it; a pointer is <<>> (nil) or <<v>>
EmptyBuildResponse ==
    [Build |-> [ID |-> 0, Status |-> "", Version |-> <<>>, BuildNumber |-> <<>>,
                UpdatedAt |-> ZeroTime, Metadata |-> <<>>],
     Appcast |-> [Status |-> "", Message |-> "", FeedURL |-> "", PublishedAt |-> <<>>,
                  URL |-> <<>>]]

----------------------------------------------------------------------------
(* Inputs and environment *)

\* --timeout values: below the range, the valid ones explored, above the range
TimeoutInputs == {-1} \cup (0 .. MaxTimeout) \cup {TimeoutLimit + 1}

\* <file>: blank path, missing file, wrong extension, .zip, upper-case .ZIP,
\* no extension, a dot in the directory only
FileInputs == {"blank", "missing", "txt", "zip", "ZIP", "nodot", "dirdot"}

\* the path each <file> stands for, as its characters
FileName(f) ==
    CASE f = "blank" -> <<" ">>
      [] f = "missing" -> <<"g", ".", "z", "i", "p">>
      [] f = "txt" -> <<"a", "p", "p", ".", "t", "x", "t">>
      [] f = "zip" -> <<"a", "p", "p", ".", "z", "i", "p">>
      [] f = "ZIP" -> <<"A", ".", "Z", "i", "P">>
      [] f = "nodot" -> <<"z", "i", "p">>
      [] f = "dirdot" -> <<"a", ".", "z", "i", "p", "/", "a">>
      [] OTHER -> <<>>

\* os.Stat(filePath) succeeds
FileExists(f) == f # "missing"

\* build statuses a server may send; "archived" stands for an unknown value
Statuses == {"processing", "created", "available", "failed", "archived"}

\* PollAfterMs is *int: <<>> is nil, <<v>> points to v
PollAfterInputs == {<<>>, <<-100>>, <<0>>, <<100>>, <<6000>>}

\* responses a status query may decode: the poll hint comes in every form with
\* the "processing" answers, absent or present with the others
Responses ==
    [status : {"processing"}, PollAfterMs : PollAfterInputs]
        \cup [status : Statuses \ {"processing"}, PollAfterMs : {<<>>, <<100>>}]

\* wait_url of the completion acknowledgment: absent, whitespace, a URL
WaitURLInputs == {"", " ", "/wait"}

\* how long a status query may be in flight, milliseconds
QueryDurations == {0, 250}

\* how late the timer of time.After may fire, milliseconds
TimerLags == {0, 100}

\* a key as its characters
SomeKey == <<"k", "1">>

\* --api-key: unset, whitespace, a key, a key within whitespace
ApiKeyFlagInputs == {<<>>, <<" ">>, <<"\t", " ">>, SomeKey, <<" ">> \o SomeKey \o <<"\n">>}

\* TWINKLE_API_KEY: unset, whitespace, a key
ApiKeyEnvInputs == {<<>>, <<" ", " ">>, <<"e">>}

defaultBaseURL == "https://app.usetwinkle.com"

\* base URLs: the default, one that url.Parse rejects
BaseURLInputs == {defaultBaseURL, ":"}

\* keys given to WithIdempotencyKey: empty, whitespace, two keys, a key within whitespace
IdempotencyKeyInputs == {<<>>, <<" ">>, <<"a">>, <<"b">>, <<" ", "a", "\n">>}

\* the options of one CreateUploadWithOptions call, as the keys they carry:
\* none, one WithIdempotencyKey, two of them
OptionInputs ==
    {<<>>} \cup {<<k>> : k \in IdempotencyKeyInputs} \cup {<<<<"b">>, <<"a">>>>, <<<<"a">>, <<>>>>}

\* what becomes of a request: answered, lost before the server saw it, or its
\* answer lost after the server acted
Outcomes == {"answered", "request lost", "response lost"}

\* the keys of the error trees, in the byte order sort.Strings puts them in
StringOrder == <<"", "bundle", "message", "signing", "step">>

\* scalars of an error tree: strings, the empty string, a number, null
Scalars == {Str("bad"), Str(""), Num(5), Null}

\* sequences of an error tree: empty, of scalars, holding a mapping, a []string
Lists ==
    {List(<<>>), List(<<Str("bad")>>), List(<<Str("bad"), Num(5)>>), List(<<Num(5), Str("bad")>>),
     List(<<Map([message |-> Str("bad")])>>), Strs(<<"x", "y">>)}

\* every mapping from the keys D to members of V
MapsOver(D, V) == {Map(m) : m \in [D -> V]}

\* mappings below the root: with message and step in every type, with other
\* keys, with nothing, with a mapping or a sequence below
InnerMaps ==
    UNION {MapsOver(D, Scalars) : D \in SUBSET {"message", "step"}}
        \cup MapsOver({"bundle", "signing"}, {Str("bad"), Num(5)})
        \cup {Map([message |-> Str("bad"), step |-> Str("sign"), bundle |-> Str("x")]),
              Map([signing |-> Map([bundle |-> Str("bad")])]),
              Map([signing |-> List(<<>>)])}

\* what the trees have below the empty key, which JSON allows
EmptyKeyValues ==
    {Str("bad"), List(<<Num(5)>>), Map([bundle |-> Str("bad")]),
     Map([k \in {""} |-> Map([signing |-> Num(5)])])}

\* the error trees: ProcessingErrors is a mapping; its keys are bundle and
\* signing with any value below one of them, or message and step
TreeInputs ==
    UNION {MapsOver({k}, Scalars \cup Lists \cup InnerMaps) : k \in {"bundle", "signing"}}
        \cup MapsOver({"bundle", "signing"},
                      {Str("bad"), Num(5), List(<<>>), List(<<Str("bad"), Num(5)>>),
                       Map(<<>>), Map([message |-> Str("bad"), step |-> Str("sign")]),
                       Map([signing |-> Str("bad"), bundle |-> Null])})
        \cup UNION {MapsOver(D, Scalars) : D \in SUBSET {"message", "step"}}
        \cup {Map([message |-> Str("unknown error")]),
              Map([bundle |-> Map([message |-> Str("unknown error"), step |-> Null])])}
        \cup {Map([k \in {""} |-> v]) : v \in EmptyKeyValues}
        \cup {Map([bundle |-> Map([k \in {""} |-> Str("bad")])])}

\* the orders a map iteration may come in: every order of the named keys,
\* with the empty key first or last
IterationOrders ==
    LET named == {StringOrder[i] : i \in DOMAIN StringOrder} \ {""}
        orders == {iter \in [1 .. Cardinality(named) -> named] :
                        \A i, j \in DOMAIN iter : iter[i] = iter[j] => i = j}
    IN {<<"">> \o iter : iter \in orders} \cup {iter \o <<"">> : iter \in orders}

\* a time of the API as the clock counts it
SomeTime == 1000

\* the pointer fields of BuildMetadata, all nil or all set
NoMetadataFields ==
    [BuildVersion |-> <<>>, BuildNumber |-> <<>>, BuildSize |-> <<>>,
     MinimumSystemVersion |-> <<>>, Signature |-> <<>>]

AllMetadataFields ==
    [BuildVersion |-> <<"1.0.0">>, BuildNumber |-> <<"1">>, BuildSize |-> <<1536>>,
     MinimumSystemVersion |-> <<"13.0">>, Signature |-> <<"abc123">>]

\* ProcessingErrors of a response: a nil map (<<>>), the empty map, trees
\* with and without leaves
ProcessingErrorsInputs ==
    {<<>>, <<Map(<<>>)>>,
     <<Map([signing |-> List(<<Str("missing signature")>>),
            bundle |-> Map([message |-> Str("invalid bundle"), step |-> Str("version")])])>>,
     <<Map([signing |-> List(<<>>)])>>,
     <<Map([bundle |-> Map(<<>>), signing |-> Str("bad")])>>,
     <<Map([message |-> Str("bad"), step |-> Num(5)])>>,
     <<Map([bundle |-> Map([message |-> Str("bad"), signing |-> Str("x")])])>>}

\* Build.Metadata: nil, or a BuildMetadata
MetadataInputs ==
    {<<>>} \cup
    {<<[fields |-> f, ProcessingErrors |-> pe]>> :
        f \in {NoMetadataFields, AllMetadataFields}, pe \in ProcessingErrorsInputs}

\* the builds a response may describe
BuildInputs ==
    {[ID |-> 11, Status |-> st, Version |-> vb[1], BuildNumber |-> vb[2],
      UpdatedAt |-> SomeTime, Metadata |-> md] :
        st \in {"processing", "available", "failed", "created"},
        vb \in {<<<<>>, <<>>>>, <<<<"">>, <<"1">>>>, <<<<"1.0.0">>, <<"1">>>>},
        md \in MetadataInputs}

\* the appcast states a response may describe
AppcastInputs ==
    {[Status |-> st, Message |-> msg, FeedURL |-> "https://example.com/feed.xml",
      PublishedAt |-> pu[1], URL |-> pu[2]] :
        st \in {"published", "waiting_manual", "pending", ""},
        msg \in {"", "waiting on manual update in web portal"},
        pu \in {<<<<>>, <<>>>>, <<<<SomeTime>>, <<"https://example.com/app.zip">>>>}}

\* failures of a remote call that are not cancellations
CallErrors == {"request failed", "api error"}

----------------------------------------------------------------------------
(* Pure helpers *)

\* strings.TrimSpace(s) == "", on the strings the model uses
IsBlank(s) == s \in {"", " "}

\* unicode.IsSpace, on the characters the model uses
IsSpace(c) == c \in {" ", "\t", "\n"}

RECURSIVE TrimLeft(_)
\* strings.TrimLeftFunc(s, unicode.IsSpace), s a sequence of characters
TrimLeft(s) == IF s # <<>> /\ IsSpace(Head(s)) THEN TrimLeft(Tail(s)) ELSE s

RECURSIVE TrimRight(_)
\* strings.TrimRightFunc(s, unicode.IsSpace)
TrimRight(s) ==
    IF s # <<>> /\ IsSpace(s[Len(s)]) THEN TrimRight(SubSeq(s, 1, Len(s) - 1)) ELSE s

\* strings.TrimSpace(s)
TrimSpace(s) == TrimRight(TrimLeft(s))

\* unicode.ToLower, on the letters the model uses
LowerChar(c) ==
    CASE c = "A" -> "a" [] c = "Z" -> "z" [] c = "I" -> "i" [] c = "P" -> "p" [] OTHER -> c

\* strings.ToLower(s)
ToLower(s) == [i \in DOMAIN s |-> LowerChar(s[i])]

\* filepath.Ext(path): the suffix from the last dot of the last path element
Ext(path) ==
    LET dots == {i \in DOMAIN path :
                    /\ path[i] = "."
                    /\ \A j \in i .. Len(path) : path[j] # "/"}
    IN IF dots = {} THEN <<>>
       ELSE SubSeq(path, CHOOSE i \in dots : \A j \in dots : j <= i, Len(path))

\* the extension the upload command accepts
ZipExt == <<".", "z", "i", "p">>

ErrMissingAPIKey == "missing API key"

\* url.Parse(u) fails
ParseFails(u) == u = ":"

\* a variant that refuses the empty key only
NewClientEmptyOnly(u, apiKey) ==
    IF apiKey = <<>> THEN [client |-> <<>>, err |-> ErrMissingAPIKey]
    ELSE IF ParseFails(u) THEN [client |-> <<>>, err |-> "parse base url"]
    ELSE [client |-> <<[baseURL |-> u, apiKey |-> apiKey]>>, err |-> NoErr]

\* api.NewClient(baseURL, apiKey, nil): the client or the error
NewClient(u, apiKey) ==
    IF TrimSpace(apiKey) = <<>> THEN [client |-> <<>>, err |-> ErrMissingAPIKey]
    ELSE IF ParseFails(u) THEN [client |-> <<>>, err |-> "parse base url"]
    ELSE [client |-> <<[baseURL |-> u, apiKey |-> apiKey]>>, err |-> NoErr]

\* if apiKey == "" { apiKey = os.Getenv(envAPIKey) }
ResolveAPIKey(flag, env) == IF flag = <<>> THEN env ELSE flag

\* for _, opt := range opts { opt(&options) }: the last key given, "" without one
ApplyOptions(opts) == IF opts = <<>> THEN <<>> ELSE opts[Len(opts)]

\* the decimal digits
Digits == <<"1", "2", "3", "4", "5", "6", "7", "8", "9">>

\* uuid.NewString(): the n-th identifier generated, unlike every other one
NewUUID(n) == <<"u", "u", "i", "d", "-", Digits[n]>>

\* a variant that never reuses a key
IdempotencyKeyAlwaysFresh(given, fresh) == fresh

\* a variant that sends the key as it was given
IdempotencyKeyUntrimmed(given, fresh) == IF TrimSpace(given) = <<>> THEN fresh ELSE given

\* idempotencyKey := strings.TrimSpace(options.idempotencyKey), or a new UUID when that is empty
IdempotencyKey(given, fresh) == IF TrimSpace(given) = <<>> THEN fresh ELSE TrimSpace(given)

\* the value a request carries for a header: doJSONWithHeadersAndClient skips
\* a header whose value is blank (<<>> stands for no header)
HeaderSent(value) == IF TrimSpace(value) = <<>> THEN <<>> ELSE value

\* "Bearer " + c.apiKey
Bearer(apiKey) == <<"B", "e", "a", "r", "e", "r", " ">> \o apiKey

\* a variant that keeps the timeout of the base client
waitClientBase(c, timeoutSeconds) == c

\* c.waitClient(timeoutSeconds): a copy of the http.Client c with the timeout
\* of a long poll
waitClient(c, timeoutSeconds) ==
    IF timeoutSeconds > 0 THEN [c EXCEPT !.Timeout = (timeoutSeconds + 10) * Second]
    ELSE IF c.Timeout <= 0 \/ c.Timeout < defaultWaitTimeout
         THEN [c EXCEPT !.Timeout = defaultWaitTimeout]
         ELSE c

\* a variant that sets no Authorization header
doJSONNoAuthorization(c, hc, op, method, seconds, outcome) ==
    [op |-> op, method |-> method, Authorization |-> <<>>,
     timeout |-> seconds, Timeout |-> hc.Timeout, outcome |-> outcome]

\* the request doJSONWithHeadersAndClient builds and hands to `hc`: its
\* Authorization header, the timeout query parameter (0 for none), the timeout
\* of the http.Client, and what becomes of it
doJSONWithHeadersAndClient(c, hc, op, method, seconds, outcome) ==
    [op |-> op, method |-> method, Authorization |-> Bearer(c.apiKey),
     timeout |-> seconds, Timeout |-> hc.Timeout, outcome |-> outcome]

\* the request UploadFile builds and hands to c.httpClient: a Content-Type
\* header and the file as its body (<<>> stands for no Authorization header)
uploadRequest(hc, outcome) ==
    [op |-> "UploadFile", method |-> "PUT", Authorization |-> <<>>,
     timeout |-> 0, Timeout |-> hc.Timeout, outcome |-> outcome]

\* the steps of UploadFile in order, each with the error that ends the call there
uploadSteps == <<"os.Open", "file.Stat", "http.NewRequestWithContext", "httpClient.Do">>

\* what UploadFile does up to the step that fails (`failing` = 0: none fails)
StepsTaken(failing) ==
    [i \in 1 .. (IF failing = 0 THEN Len(uploadSteps) ELSE failing) |->
        [step |-> uploadSteps[i], ok |-> i # failing]]

\* a variant whose file is closed on the way out of a completed transfer only
DeferredOnSuccess(taken) ==
    IF \A i \in DOMAIN taken : taken[i].ok
    THEN <<[step |-> "resp.Body.Close", ok |-> TRUE], [step |-> "file.Close", ok |-> TRUE]>>
    ELSE <<>>

\* the deferred calls that run when UploadFile returns, last deferred first:
\* defer resp.Body.Close() after a request that was answered, defer
\* file.Close() after an os.Open that succeeded
Deferred(taken) ==
    (IF \E i \in DOMAIN taken : taken[i].step = "httpClient.Do" /\ taken[i].ok
     THEN <<[step |-> "resp.Body.Close", ok |-> TRUE]>> ELSE <<>>)
    \o (IF \E i \in DOMAIN taken : taken[i].step = "os.Open" /\ taken[i].ok
        THEN <<[step |-> "file.Close", ok |-> TRUE]>> ELSE <<>>)

\* a semantically idempotent server: the build of the record made for this
\* key, or that of a new record
BuildFor(recs, key) ==
    IF \E r \in recs : r.key = key
    THEN (CHOOSE r \in recs : r.key = key).build
    ELSE Cardinality(recs) + 1

\* for key := range typed: the keys of m in the order `iter` the runtime
\* happens to iterate in
RangeKeys(m, iter) == SelectSeq(iter, LAMBDA k : k \in DOMAIN m)

\* a variant that leaves the keys as the iteration gave them
SortStringsNot(keys) == keys

\* sort.Strings(keys), keys being distinct
SortStrings(keys) ==
    LET rank(k) == CHOOSE i \in DOMAIN StringOrder : StringOrder[i] = k
        ranks == {rank(keys[i]) : i \in DOMAIN keys}
    IN [i \in 1 .. Len(keys) |->
            StringOrder[CHOOSE r \in ranks : Cardinality({q \in ranks : q < r}) = i - 1]]

RECURSIVE Concat(_)
\* the lines appended by consecutive calls, in order
Concat(parts) == IF parts = <<>> THEN <<>> ELSE Head(parts) \o Concat(Tail(parts))

\* fmt.Sprint of a value that is no string, slice or map
Sprint(value) ==
    CASE value.t = "number" -> Digits[value.v]
      [] value.t = "nil" -> "<nil>"
      [] OTHER -> value.v

\* fmt.Sprintf("%s: %s", prefix, text) when there is a prefix
Prefixed(prefix, text) == IF prefix # "" THEN prefix \o ": " \o text ELSE text

\* a variant that keeps the nearest key only
NextPrefixNearest(prefix, key) == key

\* nextPrefix := key, or prefix + "." + key
NextPrefix(prefix, key) == IF prefix # "" THEN prefix \o "." \o key ELSE key

\* message, ok := typed["message"].(string)
HasMessage(m) == "message" \in DOMAIN m /\ m["message"].t = "string"

\* a variant that writes the step whenever it is a string
MessageLineAnyStep(m) ==
    IF "step" \in DOMAIN m /\ m["step"].t = "string"
    THEN m["step"].v \o ": " \o m["message"].v
    ELSE m["message"].v

\* the line of a mapping with a message: "step: message" with a non-empty string step
MessageLine(m) ==
    LET step == IF "step" \in DOMAIN m /\ m["step"].t = "string" THEN m["step"].v ELSE ""
    IN IF step # "" THEN step \o ": " \o m["message"].v ELSE m["message"].v

RECURSIVE collectProcessingErrors(_, _, _)
\* collectProcessingErrors(value, prefix, lines): the lines it appends, the
\* map iteration of the runtime being `iter`
collectProcessingErrors(value, prefix, iter) ==
    CASE value.t = "map" ->
            IF HasMessage(value.v) THEN <<MessageLine(value.v)>>
            ELSE LET keys == SortStrings(RangeKeys(value.v, iter))
                 IN Concat([i \in 1 .. Len(keys) |->
                        collectProcessingErrors(value.v[keys[i]], NextPrefix(prefix, keys[i]), iter)])
      [] value.t = "list" ->
            Concat([i \in 1 .. Len(value.v) |-> collectProcessingErrors(value.v[i], prefix, iter)])
      [] value.t = "strings" ->
            Concat([i \in 1 .. Len(value.v) |->
                        collectProcessingErrors(Str(value.v[i]), prefix, iter)])
      [] value.t = "string" -> <<Prefixed(prefix, value.v)>>
      [] OTHER -> <<Prefixed(prefix, Sprint(value))>>

\* a variant without the line for a tree that gave none
formatProcessingErrorsNoSentinel(tree, iter) == collectProcessingErrors(tree, "", iter)

\* formatProcessingErrors(values)
formatProcessingErrors(tree, iter) ==
    LET collected == collectProcessingErrors(tree, "", iter)
    IN IF Len(collected) = 0 THEN <<"unknown error">> ELSE collected

\* one line written to out: the function or format that wrote it, and its arguments
Line(style, format, args) == [style |-> style, format |-> format, args |-> args]

RECURSIVE Join(_, _)
\* strings.Join(elems, sep)
Join(elems, sep) ==
    IF elems = <<>> THEN ""
    ELSE IF Len(elems) = 1 THEN elems[1]
    ELSE elems[1] \o sep \o Join(Tail(elems), sep)

\* formatKeys(values): the keys as the map iteration gives them
formatKeys(m, iter) == Join(RangeKeys(m, iter), ", ")

\* formatBuildValue(status, value)
formatBuildValue(status, value) ==
    IF value # <<>> /\ value[1] # "" THEN value[1]
    ELSE IF status = "processing" THEN "pending"
    ELSE "n/a"

KB == 1024

MB == KB * 1024

GB == MB * 1024

\* the hundredths fmt's %.2f shows of bytes / unit
Hundredths(bytes, unit) == (bytes * 100 + unit \div 2) \div unit

\* formatBytes(bytes): the number shown (hundredths above a KB) and its unit
formatBytes(bytes) ==
    IF bytes >= GB THEN <<Hundredths(bytes, GB), "GB">>
    ELSE IF bytes >= MB THEN <<Hundredths(bytes, MB), "MB">>
    ELSE IF bytes >= KB THEN <<Hundredths(bytes, KB), "KB">>
    ELSE <<bytes, "bytes">>

\* len(resp.Build.Metadata.ProcessingErrors)
LenProcessingErrors(md) ==
    IF md.ProcessingErrors = <<>> THEN 0 ELSE Cardinality(DOMAIN md.ProcessingErrors[1].v)

\* the switch on resp.Build.Status
Headline(b) ==
    CASE b.Status = "available" -> Line("Successf", "Build %d processed", <<b.ID>>)
      [] b.Status = "failed" -> Line("Errorf", "Build %d failed", <<b.ID>>)
      [] OTHER -> Line("Statusf", "Build %d is %s", <<b.ID, b.Status>>)

\* the line of a pointer field of the metadata, none when it is nil
FieldLine(format, field) ==
    IF field = <<>> THEN <<>> ELSE <<Line("Fprintf", format, <<field[1]>>)>>

\* if resp.Build.Metadata != nil { ... } of the verbose details
MetadataLines(md, iter) ==
    LET size == md.fields.BuildSize
    IN <<Line("Fprintf", "  Metadata:", <<>>)>>
        \o FieldLine("    Build Version: %s", md.fields.BuildVersion)
        \o FieldLine("    Build Number: %s", md.fields.BuildNumber)
        \o FieldLine("    Build Size: %s", IF size = <<>> THEN <<>> ELSE <<formatBytes(size[1])>>)
        \o FieldLine("    Minimum System: %s", md.fields.MinimumSystemVersion)
        \o FieldLine("    Signature: %s", md.fields.Signature)
        \o (IF LenProcessingErrors(md) > 0
            THEN <<Line("Fprintf", "    Processing Errors: %s",
                        <<formatKeys(md.ProcessingErrors[1].v, iter)>>)>>
            ELSE <<>>)

\* if verbose { ... }: version, build number, update time, metadata
VerboseDetails(b, iter) ==
    <<Line("Fprintf", "  Version: %s", <<formatBuildValue(b.Status, b.Version)>>),
      Line("Fprintf", "  Build Number: %s", <<formatBuildValue(b.Status, b.BuildNumber)>>),
      Line("Fprintf", "  Updated: %s", <<b.UpdatedAt>>)>>
        \o (IF b.Metadata # <<>> THEN MetadataLines(b.Metadata[1], iter) ELSE <<>>)

\* the ErrorDetail lines of a failed build
ErrorDetails(b, iter) ==
    IF b.Metadata # <<>> /\ LenProcessingErrors(b.Metadata[1]) > 0
    THEN LET errs == formatProcessingErrors(b.Metadata[1].ProcessingErrors[1], iter)
         IN [i \in 1 .. Len(errs) |-> Line("ErrorDetail", "%s", <<errs[i]>>)]
    ELSE <<>>

\* the switch on resp.Appcast.Status and the verbose appcast lines
AppcastLines(a, isVerbose) ==
    <<CASE a.Status = "published" -> Line("Successf", "Feed updated: %s", <<a.FeedURL>>)
        [] a.Status = "waiting_manual" -> Line("Status", "Awaiting manual publication", <<>>)
        [] OTHER -> Line("Statusf", "Appcast status: %s", <<a.Status>>)>>
        \o (IF isVerbose
            THEN <<Line("Fprintf", "  Message: %s", <<a.Message>>),
                   Line("Fprintf", "  Feed URL: %s", <<a.FeedURL>>)>>
                    \o (IF a.PublishedAt # <<>>
                        THEN <<Line("Fprintf", "  Published At: %s", <<a.PublishedAt[1]>>)>>
                        ELSE <<>>)
                    \o (IF a.URL # <<>> THEN <<Line("Fprintf", "  URL: %s", <<a.URL[1]>>)>> ELSE <<>>)
            ELSE <<>>)

\* a variant that goes on to the appcast after the errors of a failed build
OutcomeLinesNoReturn(r, isVerbose, iter) ==
    IF r.Build.Status = "failed"
    THEN ErrorDetails(r.Build, iter) \o AppcastLines(r.Appcast, isVerbose)
    ELSE AppcastLines(r.Appcast, isVerbose)

\* a variant that keeps a failed build's errors to itself
OutcomeLinesNoErrors(r, isVerbose, iter) ==
    IF r.Build.Status = "failed" THEN <<>> ELSE AppcastLines(r.Appcast, isVerbose)

\* what printBuildResponse writes after the details: the errors of a failed
\* build and nothing else (return), the appcast of any other build
OutcomeLines(r, isVerbose, iter) ==
    IF r.Build.Status = "failed"
    THEN ErrorDetails(r.Build, iter)
    ELSE AppcastLines(r.Appcast, isVerbose)

\* printBuildResponse(cmd, resp, verbose): the lines written, in order
printBuildResponse(r, isVerbose, iter) ==
    <<Headline(r.Build)>>
        \o (IF isVerbose THEN VerboseDetails(r.Build, iter) ELSE <<>>)
        \o OutcomeLines(r, isVerbose, iter)

\* a variant that uploads whatever file exists
ValidateUploadAnyFile(f, t) ==
    IF TrimSpace(FileName(f)) = <<>> THEN "file path is required"
    ELSE IF ~FileExists(f) THEN "file not accessible"
    ELSE IF t < 0 THEN "timeout must be >= 0"
    ELSE IF t > TimeoutLimit THEN "timeout must be <= 300"
    ELSE NoErr

\* the checks of the upload command before any call, in the code's order
ValidateUpload(f, t) ==
    IF TrimSpace(FileName(f)) = <<>> THEN "file path is required"
    ELSE IF ~FileExists(f) THEN "file not accessible"
    ELSE IF ToLower(Ext(FileName(f))) # ZipExt THEN "only .zip archives are supported"
    ELSE IF t < 0 THEN "timeout must be >= 0"
    ELSE IF t > TimeoutLimit THEN "timeout must be <= 300"
    ELSE NoErr

\* a variant without the upper limit
ValidateWaitNoLimit(t) == IF t < 0 THEN "timeout must be >= 0" ELSE NoErr

\* the checks of the wait command before any call
ValidateWait(t) ==
    IF t < 0 THEN "timeout must be >= 0"
    ELSE IF t > TimeoutLimit THEN "timeout must be <= 300"
    ELSE NoErr

\* a variant that takes a timeout of zero for a deadline of zero seconds
ComputeDeadlineFromZero(t, timeoutSeconds) ==
    IF timeoutSeconds >= 0 THEN t + timeoutSeconds * Second ELSE ZeroTime

\* deadline := time.Time{}; if timeoutSeconds > 0 { deadline = now + timeoutSeconds s }
ComputeDeadline(t, timeoutSeconds) ==
    IF timeoutSeconds > 0 THEN t + timeoutSeconds * Second ELSE ZeroTime

\* deadline.IsZero()
IsZero(t) == t = ZeroTime

\* a variant that knows a fixed set of terminal statuses
IsTerminalKnownOnly(status) == status \in {"created", "available", "failed"}

\* resp.Build.Status != "processing": the status ends the wait
IsTerminal(status) == status # "processing"

\* !deadline.IsZero() && time.Now().After(deadline)
DeadlinePassed(t, dl) == ~IsZero(dl) /\ t > dl

\* time.Until(deadline)
Remaining(t, dl) == dl - t

\* a variant that takes a hint of zero as well
PreferredIntervalNonNegative(r, interval) ==
    IF r.PollAfterMs # <<>> /\ r.PollAfterMs[1] >= 0
    THEN r.PollAfterMs[1] * Millisecond
    ELSE interval

\* a variant that always sleeps the nominal interval
PreferredIntervalNominal(r, interval) == interval

\* nextInterval before the clamp: PollAfterMs when present and positive
PreferredInterval(r, interval) ==
    IF r.PollAfterMs # <<>> /\ r.PollAfterMs[1] > 0
    THEN r.PollAfterMs[1] * Millisecond
    ELSE interval

\* a variant that sleeps the preferred interval whatever the deadline
ClampIntervalNever(d, t, dl) == d

\* if nextInterval > remaining { nextInterval = remaining }, when a deadline is set
ClampInterval(d, t, dl) ==
    IF ~IsZero(dl) /\ d > Remaining(t, dl) THEN Remaining(t, dl) ELSE d

\* a variant whose request does not carry the context
QueryErrorWithoutContext(url, isCancelled, callErr) ==
    IF url # "" /\ IsBlank(url) THEN "wait url is empty" ELSE callErr

\* the error a status query returns: the local URL check, then the context, then the call
QueryError(url, isCancelled, callErr) ==
    IF url # "" /\ IsBlank(url) THEN "wait url is empty"
    ELSE IF isCancelled THEN ErrCanceled
    ELSE callErr

\* the error a context-aware remote call returns: net/http fails a request
\* whose context is cancelled before its response has been read
CallError(isCancelled, callErr) == IF isCancelled THEN ErrCanceled ELSE callErr

\* errors renderOutput may return: only the JSON encoder writes fallibly
RenderErrors(json) == IF json THEN {NoErr, "write error"} ELSE {NoErr}

\* number of events e in log l
CountOf(l, e) == Cardinality({i \in DOMAIN l : l[i] = e})

\* a variant that never sees an error
IsFailureNever(e) == FALSE

\* if err != nil
IsFailure(e) == e # NoErr

\* the log entry of a call's return
Returned(call, e) == IF e = NoErr THEN call \o " ok" ELSE call \o " failed"

\* a variant that replaces the query's error by one of its own
QueryFailureReworded(e) == [resp |-> EmptyResponse, err |-> "wait failed"]

\* return api.BuildResponse{}, err: a failed status query
QueryFailure(e) == [resp |-> EmptyResponse, err |-> e]

\* return resp, nil: the status is not "processing"
TerminalReturn(r) == [resp |-> r, err |-> NoErr]

\* a variant that reports the elapsed deadline as an error
TimeoutReturnAsError(r) == [resp |-> EmptyResponse, err |-> "timed out waiting for build"]

\* return resp, nil: the deadline has elapsed
TimeoutReturn(r) == [resp |-> r, err |-> NoErr]

\* return api.BuildResponse{}, ctx.Err()
CancelReturn == [resp |-> EmptyResponse, err |-> ErrCanceled]

\* the progress line of one "processing" response: VerboseStatus or Status
StillProcessing(v) == IF v THEN "notify verbose" ELSE "notify"

\* a variant that writes no progress line
NotifiedNever(l, json, v) == l

\* if !jsonOut { ... }: the log after the progress line (none under --json)
Notified(l, json, v) == IF json THEN l ELSE Append(l, StillProcessing(v))

\* a variant without the second check of the deadline
PollOutcomeAfterOnly(r, t, dl) ==
    IF IsTerminal(r.status) THEN "terminal"
    ELSE IF DeadlinePassed(t, dl) THEN "timeout"
    ELSE "sleep"

\* what one iteration does with a decoded response at time t: return it because
\* the status is terminal, return it because the deadline has elapsed, or sleep
PollOutcome(r, t, dl) ==
    IF IsTerminal(r.status) THEN "terminal"
    ELSE IF DeadlinePassed(t, dl) THEN "timeout"
    ELSE IF ~IsZero(dl) /\ Remaining(t, dl) <= 0 THEN "timeout"
    ELSE "sleep"

----------------------------------------------------------------------------
(* State *)

\* the api package has not been called on its own
NothingEncoded ==
    /\ marshalled = <<>>
    /\ data = <<>>
    /\ decoded = <<>>

\* no request made; the client has the http.Client NewClient gives it
NothingRequested ==
    /\ httpClient = [Timeout |-> defaultTimeout]
    /\ requests = <<>>
    /\ uploads = <<>>

NothingElse ==
    /\ id = [value |-> 0]
    /\ NothingEncoded
    /\ NothingRequested

\* the output functions have not been called on their own
NothingPrinted ==
    /\ values = Map(<<>>)
    /\ lines = <<>>
    /\ buildResp = EmptyBuildResponse
    /\ out = <<>>
    /\ NothingElse

\* no create-upload request has been made through the api package
NoRequests ==
    /\ sent = <<>>
    /\ records = {}
    /\ uuids = 0
    /\ NothingPrinted


NotReturned == [returned |-> FALSE, resp |-> EmptyResponse, err |-> NoErr, at |-> ZeroTime]

NotCancelled == [pc |-> "none", n |-> 0]

Init ==
    /\ pc = "start"
    /\ cmd \in {"upload", "wait"}
    /\ wait \in (IF cmd = "upload" THEN BOOLEAN ELSE {FALSE})
    /\ file \in (IF cmd = "upload" THEN FileInputs ELSE {"none"})
    /\ timeout \in TimeoutInputs
    /\ jsonOut \in BOOLEAN
    \* --verbose changes nothing under --json
    /\ verbose \in (IF jsonOut THEN {FALSE} ELSE BOOLEAN)
    /\ now = 1
    /\ cancelled = FALSE
    /\ deadline = ZeroTime
    /\ pollStart = ZeroTime
    /\ waitURL = ""
    /\ resp = EmptyResponse
    /\ nextInterval = 0
    /\ pollRet = NotReturned
    /\ cmdErr = "running"
    /\ rendered = "none"
    /\ lastErr = NoErr
    /\ cancelAt = NotCancelled
    /\ log = <<>>
    \* PersistentPreRunE has built the client from a key
    /\ apiKeyFlag = SomeKey
    /\ apiKeyEnv = <<>>
    /\ baseURL = defaultBaseURL
    /\ client = NewClient(baseURL, apiKeyFlag).client
    /\ NoRequests

\* a variant that returns an error of its own making
ReturnErrSynthesized(e, l) ==
    /\ pc' = "done"
    /\ cmdErr' = "upload failed"
    /\ log' = l
    /\ UNCHANGED rendered

\* RunE returns e without rendering
ReturnErr(e, l) ==
    /\ pc' = "done"
    /\ cmdErr' = e
    /\ log' = l
    /\ UNCHANGED rendered

\* a variant that renders the completion acknowledgment whatever it is given
RenderAcknowledgment(payload, renderErr, l) ==
    /\ pc' = "done"
    /\ rendered' = "complete"
    /\ cmdErr' = renderErr
    /\ log' = Append(l, "render")

\* renderOutput(payload), then RunE returns what renderOutput returned
Render(payload, renderErr, l) ==
    /\ pc' = "done"
    /\ rendered' = payload
    /\ cmdErr' = renderErr
    /\ log' = Append(l, "render")

\* entry of pollBuildStatus up to its first status query
EnterPoll(url, l) ==
    /\ deadline' = ComputeDeadline(now, timeout)
    /\ pollStart' = now
    /\ waitURL' = url
    /\ log' = Append(l, "query")
    /\ pc' = "querying"
    /\ UNCHANGED <<now, resp, nextInterval, pollRet, cmdErr, rendered>>

\* build upload / ship: the checks, then CreateUpload is called
StartUpload ==
    /\ pc = "start"
    /\ cmd = "upload"
    /\ IF IsFailure(ValidateUpload(file, timeout))
       THEN ReturnErr(ValidateUpload(file, timeout), log)
       ELSE /\ pc' = "creating"
            /\ log' = Append(log, "create")
            /\ UNCHANGED <<cmdErr, rendered>>
    /\ UNCHANGED <<inputs, rootVars, libVars, apiVars, pollVars, cancelled, cancelAt, lastErr>>

\* build wait: the checks, then pollBuildStatus with no wait URL
StartWait ==
    /\ pc = "start"
    /\ cmd = "wait"
    /\ IF IsFailure(ValidateWait(timeout))
       THEN /\ ReturnErr(ValidateWait(timeout), log)
            /\ UNCHANGED pollVars
       ELSE EnterPoll("", log)
    /\ UNCHANGED <<inputs, rootVars, libVars, apiVars, cancelled, cancelAt, lastErr>>

\* CreateUpload returns; on success UploadFile is called
CreateReturn(callErr) ==
    /\ pc = "creating"
    /\ LET e == CallError(cancelled, callErr)
           l == Append(log, Returned("create", e))
       IN
        /\ lastErr' = e
        /\ IF IsFailure(e)
           THEN ReturnErr(e, l)
           ELSE /\ pc' = "transferring"
                /\ log' = Append(l, "transfer")
                /\ UNCHANGED <<cmdErr, rendered>>
    /\ UNCHANGED <<inputs, rootVars, libVars, apiVars, pollVars, cancelled, cancelAt>>

\* UploadFile returns; on success CompleteUpload is called
TransferReturn(callErr) ==
    /\ pc = "transferring"
    /\ LET e == CallError(cancelled, callErr)
           l == Append(log, Returned("transfer", e))
       IN
        /\ lastErr' = e
        /\ IF IsFailure(e)
           THEN ReturnErr(e, l)
           ELSE /\ pc' = "completing"
                /\ log' = Append(l, "complete")
                /\ UNCHANGED <<cmdErr, rendered>>
    /\ UNCHANGED <<inputs, rootVars, libVars, apiVars, pollVars, cancelled, cancelAt>>

\* CompleteUpload returns; without --wait its answer is rendered, with --wait
\* pollBuildStatus is entered with the answer's wait URL
CompleteReturn(callErr, url, renderErr) ==
    /\ pc = "completing"
    /\ LET e == CallError(cancelled, callErr)
           l == Append(log, Returned("complete", e))
       IN
        /\ lastErr' = e
        /\ IF IsFailure(e)
           THEN /\ ReturnErr(e, l)
                /\ UNCHANGED pollVars
           ELSE IF ~wait
           THEN /\ Render("complete", renderErr, l)
                /\ UNCHANGED pollVars
           ELSE EnterPoll(url, l)
    /\ UNCHANGED <<inputs, rootVars, libVars, apiVars, cancelled, cancelAt>>

----------------------------------------------------------------------------
(* pollBuildStatus *)

\* pollBuildStatus returns ret = (resp, err) at time t; the command returns err,
\* or renders resp and returns what renderOutput returned
PollReturn(ret, t, renderErr, l) ==
    /\ pollRet' = [returned |-> TRUE, resp |-> ret.resp, err |-> ret.err, at |-> t]
    /\ IF IsFailure(ret.err) THEN ReturnErr(ret.err, l) ELSE Render("build", renderErr, l)

\* a variant that makes a failed status query once more
QueryFailsRetried(d, callErr) ==
    /\ pc = "querying"
    /\ IsFailure(QueryError(waitURL, cancelled, callErr))
    /\ CountOf(log, "query") < MaxQueries
    /\ now' = now + d
    /\ lastErr' = QueryError(waitURL, cancelled, callErr)
    /\ log' = Append(Append(log, "query failed"), "query")
    /\ UNCHANGED <<pc, resp, pollRet, cmdErr, rendered>>
    /\ UNCHANGED <<deadline, pollStart, waitURL, nextInterval>>
    /\ UNCHANGED <<inputs, rootVars, libVars, apiVars, cancelled, cancelAt>>

\* the status query in flight fails after d ms (at once when the URL check fails)
QueryFails(d, callErr) ==
    /\ pc = "querying"
    /\ IsFailure(QueryError(waitURL, cancelled, callErr))
    /\ LET e == QueryError(waitURL, cancelled, callErr)
           t == IF waitURL # "" /\ IsBlank(waitURL) THEN now ELSE now + d
       IN
        /\ now' = t
        /\ lastErr' = e
        /\ resp' = EmptyResponse
        /\ PollReturn(QueryFailure(e), t, NoErr, Append(log, Returned("query", e)))
    /\ UNCHANGED <<deadline, pollStart, waitURL, nextInterval>>
    /\ UNCHANGED <<inputs, rootVars, libVars, apiVars, cancelled, cancelAt>>

\* the status query in flight returns response r after d ms: the rest of the
\* iteration, up to the return of pollBuildStatus or to the select
QueryResponds(d, r, renderErr) ==
    /\ pc = "querying"
    /\ ~IsFailure(QueryError(waitURL, cancelled, NoErr))
    /\ LET t == now + d
           l == Append(log, Returned("query", NoErr))
       IN
        /\ now' = t
        /\ lastErr' = NoErr
        /\ resp' = r
        /\ IF PollOutcome(r, t, deadline) = "terminal"
           THEN /\ PollReturn(TerminalReturn(r), t, renderErr, l)
                /\ UNCHANGED nextInterval
           ELSE IF PollOutcome(r, t, deadline) = "timeout"
           THEN /\ PollReturn(TimeoutReturn(r), t, renderErr, Notified(l, jsonOut, verbose))
                /\ UNCHANGED nextInterval
           ELSE /\ nextInterval' = ClampInterval(PreferredInterval(r, pollInterval), t, deadline)
                /\ pc' = "sleeping"
                /\ log' = Append(Notified(l, jsonOut, verbose), "sleep")
                /\ UNCHANGED <<pollRet, cmdErr, rendered>>
    /\ UNCHANGED <<deadline, pollStart, waitURL>>
    /\ UNCHANGED <<inputs, rootVars, libVars, apiVars, cancelled, cancelAt>>

\* case <-time.After(nextInterval): the timer fires, lag ms late, and the next
\* iteration (with its fresh resp and nextInterval) makes its status query.
\* Without a deadline the model stops after MaxQueries.
SleepTimer(lag) ==
    /\ pc = "sleeping"
    /\ ~IsZero(deadline) \/ CountOf(log, "query") < MaxQueries
    /\ now' = now + nextInterval + lag
    /\ resp' = EmptyResponse
    /\ nextInterval' = 0
    /\ log' = Append(log, "query")
    /\ pc' = "querying"
    /\ UNCHANGED <<deadline, pollStart, waitURL, pollRet, cmdErr, rendered, lastErr>>
    /\ UNCHANGED <<inputs, rootVars, libVars, apiVars, cancelled, cancelAt>>

\* case <-ctx.Done(): the sleep is interrupted after `elapsed` ms
SleepCancelled(elapsed) ==
    /\ pc = "sleeping"
    /\ cancelled
    /\ now' = now + elapsed
    /\ PollReturn(CancelReturn, now + elapsed, NoErr, log)
    /\ UNCHANGED <<deadline, pollStart, waitURL, resp, nextInterval, lastErr>>
    /\ UNCHANGED <<inputs, rootVars, libVars, apiVars, cancelled, cancelAt>>

\* the environment cancels the context (an interrupt) while RunE is running
Cancel ==
    /\ pc # "done"
    /\ ~cancelled
    /\ cancelled' = TRUE
    /\ cancelAt' = [pc |-> pc, n |-> Len(log)]
    /\ UNCHANGED <<pc, inputs, rootVars, libVars, apiVars, pollVars, cmdErr, rendered, lastErr, log>>

\* a status query returns, one way or the other
QueryReturns ==
    \/ \E d \in QueryDurations, callErr \in CallErrors \cup {NoErr} : QueryFails(d, callErr)
    \/ \E d \in QueryDurations, r \in Responses, renderErr \in RenderErrors(jsonOut) :
            QueryResponds(d, r, renderErr)

\* the select of the loop proceeds
SleepEnds ==
    \/ \E lag \in TimerLags : SleepTimer(lag)
    \/ \E elapsed \in {0, nextInterval} : SleepCancelled(elapsed)

Next ==
    \/ StartUpload
    \/ StartWait
    \/ \E callErr \in CallErrors \cup {NoErr} : CreateReturn(callErr)
    \/ \E callErr \in CallErrors \cup {NoErr} : TransferReturn(callErr)
    \/ \E callErr \in CallErrors \cup {NoErr}, url \in WaitURLInputs, renderErr \in RenderErrors(jsonOut) :
            CompleteReturn(callErr, url, renderErr)
    \/ QueryReturns
    \/ SleepEnds
    \/ Cancel

Spec == Init /\ [][Next]_vars

\* the build wait command alone, with what the runtime guarantees: a status
\* query returns (the transport timeout bounds it) and the timer fires
WaitInit == Init /\ cmd = "wait"

WaitNext == StartWait \/ QueryReturns \/ SleepEnds \/ Cancel

WaitSpec ==
    /\ WaitInit
    /\ [][WaitNext]_vars
    /\ WF_vars(StartWait)
    /\ WF_vars(QueryReturns)
    /\ WF_vars(SleepEnds)

----------------------------------------------------------------------------
(* The invocation from the root command on *)

\* every --timeout from below the valid range to above it
TimeoutRange == -1 .. TimeoutLimit + 1

\* the state of a run that has made no call yet
NothingDone ==
    /\ now = 1
    /\ cancelled = FALSE
    /\ deadline = ZeroTime
    /\ pollStart = ZeroTime
    /\ waitURL = ""
    /\ resp = EmptyResponse
    /\ nextInterval = 0
    /\ pollRet = NotReturned
    /\ cmdErr = "running"
    /\ rendered = "none"
    /\ lastErr = NoErr
    /\ cancelAt = NotCancelled
    /\ log = <<>>

\* an invocation before PersistentPreRunE, its settings drawn from the given sets
InvokeInit(flags, envs, urls, timeouts) ==
    /\ pc = "prerun"
    /\ cmd \in {"upload", "wait"}
    /\ wait \in (IF cmd = "upload" THEN BOOLEAN ELSE {FALSE})
    /\ file \in (IF cmd = "upload" THEN FileInputs ELSE {"none"})
    /\ timeout \in timeouts
    /\ jsonOut \in BOOLEAN
    /\ verbose \in (IF jsonOut THEN {FALSE} ELSE BOOLEAN)
    /\ apiKeyFlag \in flags
    /\ apiKeyEnv \in envs
    /\ baseURL \in urls
    /\ client = <<>>
    /\ NoRequests
    /\ NothingDone

\* PersistentPreRunE: resolve the key, build the client, or fail the command
PersistentPreRunE ==
    /\ pc = "prerun"
    /\ LET r == NewClient(baseURL, ResolveAPIKey(apiKeyFlag, apiKeyEnv))
       IN
        /\ client' = r.client
        /\ IF IsFailure(r.err)
           THEN /\ pc' = "done"
                /\ cmdErr' = IF r.err = ErrMissingAPIKey
                             THEN "api key is required: set --api-key or TWINKLE_API_KEY"
                             ELSE r.err
           ELSE /\ pc' = "start"
                /\ UNCHANGED cmdErr
    /\ UNCHANGED <<inputs, apiKeyFlag, apiKeyEnv, baseURL, libVars, apiVars, pollVars, cancelled, cancelAt,
                   rendered, lastErr, log>>

\* the invocation up to the first status query
InvokeNext ==
    \/ PersistentPreRunE
    \/ StartUpload
    \/ StartWait
    \/ \E callErr \in CallErrors \cup {NoErr} : CreateReturn(callErr)
    \/ \E callErr \in CallErrors \cup {NoErr} : TransferReturn(callErr)
    \/ \E callErr \in CallErrors \cup {NoErr}, url \in WaitURLInputs, renderErr \in RenderErrors(jsonOut) :
            CompleteReturn(callErr, url, renderErr)
    \/ Cancel

\* no command of the CLI is running: the api package is used as a library
NoCommand ==
    /\ pc = "done"
    /\ cmd = "none"
    /\ wait = FALSE
    /\ file = "none"
    /\ timeout = 0
    /\ jsonOut = FALSE
    /\ verbose = FALSE
    /\ apiKeyFlag = SomeKey
    /\ apiKeyEnv = <<>>
    /\ baseURL = defaultBaseURL
    /\ client = NewClient(baseURL, apiKeyFlag).client
    /\ NothingDone

\* client.CreateUploadWithOptions(ctx, appID, params, opts...) against the server
CreateUploadWithOptions(opts, outcome) ==
    /\ client # <<>>
    /\ Len(sent) < MaxCalls
    /\ LET given == ApplyOptions(opts)
           generates == TrimSpace(given) = <<>>
           key == HeaderSent(IdempotencyKey(given, NewUUID(uuids + 1)))
           build == BuildFor(records, key)
       IN
        /\ uuids' = IF generates THEN uuids + 1 ELSE uuids
        /\ records' = IF outcome = "request lost" THEN records
                      ELSE records \cup {[key |-> key, build |-> build]}
        \* BuildUploadResponse{} with the error, or the decoded response
        /\ sent' = Append(sent, [given |-> given, key |-> key, outcome |-> outcome,
                                 build |-> IF outcome = "answered" THEN build ELSE 0])
        /\ requests' = Append(requests,
                doJSONWithHeadersAndClient(client[1], httpClient, "CreateUpload", "POST", 0, outcome))
    /\ UNCHANGED <<pc, inputs, rootVars, pollVars, cancelled, cancelAt, cmdErr, rendered,
                   lastErr, log, values, lines, buildResp, out, idVars, httpClient, uploads>>

CreateSpecInit == NoCommand /\ NoRequests

\* formatProcessingErrors(values), called twice on the same tree; the map
\* iteration of the runtime is iter1 in the first call, iter2 in the second
FormatProcessingErrors(iter1, iter2) ==
    /\ lines = <<>>
    /\ lines' = <<formatProcessingErrors(values, iter1), formatProcessingErrors(values, iter2)>>
    /\ UNCHANGED <<pc, inputs, rootVars, pollVars, cancelled, cancelAt, cmdErr, rendered,
                   lastErr, log, sent, records, uuids, values, buildResp, out, apiVars>>

\* renderOutput hands a BuildResponse to printBuildResponse (no --json)
PrintBuildResponse(iter) ==
    /\ rendered = "none"
    /\ rendered' = "build"
    /\ out' = printBuildResponse(buildResp, verbose, iter)
    /\ UNCHANGED <<pc, inputs, rootVars, pollVars, cancelled, cancelAt, cmdErr,
                   lastErr, log, sent, records, uuids, values, lines, buildResp, apiVars>>

RenderInit ==
    /\ pc = "done"
    /\ cmd = "none"
    /\ wait = FALSE
    /\ file = "none"
    /\ timeout = 0
    /\ jsonOut = FALSE
    /\ verbose \in BOOLEAN
    /\ apiKeyFlag = SomeKey
    /\ apiKeyEnv = <<>>
    /\ baseURL = defaultBaseURL
    /\ client = NewClient(baseURL, apiKeyFlag).client
    /\ NothingDone
    /\ sent = <<>>
    /\ records = {}
    /\ uuids = 0
    /\ values = Map(<<>>)
    /\ lines = <<>>
    /\ buildResp \in [Build : BuildInputs, Appcast : AppcastInputs]
    /\ out = <<>>
    /\ NothingElse

RenderNext == \E iter \in IterationOrders : PrintBuildResponse(iter)

\* a program that renders a response for a reader
RenderSpec == RenderInit /\ [][RenderNext]_vars

FormatInit ==
    /\ NoCommand
    /\ sent = <<>>
    /\ records = {}
    /\ uuids = 0
    /\ values \in TreeInputs
    /\ lines = <<>>
    /\ buildResp = EmptyBuildResponse
    /\ out = <<>>
    /\ NothingElse

FormatNext ==
    \E iter1 \in IterationOrders, iter2 \in IterationOrders : FormatProcessingErrors(iter1, iter2)

\* a program that formats an error tree
FormatSpec == FormatInit /\ [][FormatNext]_vars

CreateSpecNext ==
    \E opts \in OptionInputs, outcome \in Outcomes : CreateUploadWithOptions(opts, outcome)

\* a program that calls CreateUploadWithOptions on one client, again and again
CreateSpec == CreateSpecInit /\ [][CreateSpecNext]_vars

\* invocations with a key, over every --timeout
TimeoutInit == InvokeInit({SomeKey}, {<<>>}, {defaultBaseURL}, TimeoutRange)

TimeoutSpec == TimeoutInit /\ [][InvokeNext]_vars

\* invocations over the key settings
KeyInit == InvokeInit(ApiKeyFlagInputs, ApiKeyEnvInputs, BaseURLInputs, TimeoutInputs)

KeySpec == KeyInit /\ [][InvokeNext]_vars

----------------------------------------------------------------------------
(* BuildID and its JSON forms *)

\* largest build identifier explored, and the negative of the smallest
MaxID == 120

\* the decimal digits; DigitChars[d + 1] is the character of d
DigitChars == <<"0", "1", "2", "3", "4", "5", "6", "7", "8", "9">>

IsDigit(c) == \E i \in DOMAIN DigitChars : DigitChars[i] = c

DigitValue(c) == (CHOOSE i \in DOMAIN DigitChars : DigitChars[i] = c) - 1

RECURSIVE NatText(_)
\* the decimal text of a natural number
NatText(n) ==
    IF n < 10 THEN <<DigitChars[n + 1]>>
    ELSE NatText(n \div 10) \o <<DigitChars[(n % 10) + 1]>>

\* strconv.Itoa / json.Marshal of an int
Itoa(n) == IF n < 0 THEN <<"-">> \o NatText(-n) ELSE NatText(n)

RECURSIVE DigitsValue(_)
\* the number a sequence of digits spells
DigitsValue(s) ==
    IF s = <<>> THEN 0
    ELSE DigitsValue(SubSeq(s, 1, Len(s) - 1)) * 10 + DigitValue(s[Len(s)])

\* strconv.ParseInt(s, 10, 64), which strconv.Atoi and json.Number.Int64 come
\* down to: an optional sign, then digits and nothing else
ParseInt(s) ==
    LET signed == s # <<>> /\ s[1] \in {"+", "-"}
        body == IF signed THEN Tail(s) ELSE s
    IN IF body = <<>> \/ \E i \in DOMAIN body : ~IsDigit(body[i])
       THEN [value |-> 0, err |-> "invalid syntax"]
       ELSE [value |-> IF signed /\ s[1] = "-" THEN -DigitsValue(body) ELSE DigitsValue(body),
             err |-> NoErr]

\* the JSON text null
NullText == <<"n", "u", "l", "l">>

\* s in double quotes
Quoted(s) == <<"\"">> \o s \o <<"\"">>

\* data is a JSON number: json.Unmarshal into a json.Number fails on any other value
IsJSONNumber(d) == d # <<>> /\ (IsDigit(d[1]) \/ d[1] = "-")

\* a variant that writes the identifier as a string
MarshalJSONQuoted(b) == [data |-> Quoted(Itoa(b.value)), err |-> NoErr]

\* func (b BuildID) MarshalJSON(): json.Marshal(b.value)
MarshalJSON(b) == [data |-> Itoa(b.value), err |-> NoErr]

\* func (b *BuildID) UnmarshalJSON(d): the value b holds afterwards and the
\* error; d is a well-formed JSON value, without escapes in a string
UnmarshalJSON(b, d) ==
    IF d = NullText THEN [value |-> b.value, err |-> NoErr]
    ELSE IF Len(d) > 0 /\ d[1] = "\""
    THEN LET parsed == ParseInt(SubSeq(d, 2, Len(d) - 1))
         IN IF IsFailure(parsed.err) THEN [value |-> b.value, err |-> "parse build id"]
            ELSE [value |-> parsed.value, err |-> NoErr]
    ELSE IF ~IsJSONNumber(d) THEN [value |-> b.value, err |-> "json: cannot unmarshal"]
    ELSE LET parsed == ParseInt(d)
         IN IF IsFailure(parsed.err) THEN [value |-> b.value, err |-> "parse build id"]
            ELSE [value |-> parsed.value, err |-> NoErr]

\* JSON values a server may send for a build identifier
DataInputs ==
    {NullText, <<"4", "2">>, Quoted(<<"4", "2">>), Quoted(<<"-", "7">>), Quoted(<<"+", "4", "2">>),
     Quoted(<<"0", "4", "2">>), Quoted(<<>>), Quoted(<<"4", "x">>), <<"4", ".", "5">>,
     <<"1", "e", "2">>, <<"-", "0">>, <<"t", "r", "u", "e">>}

\* json.Marshal of the BuildID
Marshal ==
    /\ marshalled = <<>>
    /\ marshalled' = MarshalJSON(id)
    /\ UNCHANGED <<pc, inputs, rootVars, libVars, pollVars, cancelled, cancelAt, cmdErr,
                   rendered, lastErr, log, id, data, decoded, httpClient, requests, uploads>>

\* json.Unmarshal of d into a zero BuildID
Unmarshal(d) ==
    /\ decoded = <<>>
    /\ data' = d
    /\ decoded' = UnmarshalJSON([value |-> 0], d)
    /\ UNCHANGED <<pc, inputs, rootVars, libVars, pollVars, cancelled, cancelAt, cmdErr,
                   rendered, lastErr, log, id, marshalled, httpClient, requests, uploads>>

IDInit ==
    /\ NoCommand
    /\ sent = <<>>
    /\ records = {}
    /\ uuids = 0
    /\ values = Map(<<>>)
    /\ lines = <<>>
    /\ buildResp = EmptyBuildResponse
    /\ out = <<>>
    /\ NothingEncoded
    /\ NothingRequested
    /\ id \in [value : -MaxID .. MaxID]

IDNext ==
    \/ Marshal
    \/ \E d \in DataInputs : Unmarshal(d)
    \/ marshalled # <<>> /\ Unmarshal(marshalled.data)

\* a program that encodes a BuildID and decodes JSON into another
IDSpec == IDInit /\ [][IDNext]_vars

----------------------------------------------------------------------------
(* The calls of the api client *)

\* requests explored per client
MaxRequests == 2

\* the Timeout of an http.Client given to NewClient: none, shorter than the
\* default, the default of NewClient, the long-poll default, longer
HTTPTimeouts == {0, 5 * Second, defaultTimeout, defaultWaitTimeout, 60 * Second}

\* timeoutSeconds of a wait: none, the smallest, one whose buffer reaches the
\* long-poll default, the largest --timeout
WaitSecondsInputs == {0, 1, 30, TimeoutLimit}

\* what becomes of a request of the api client
RequestOutcomes == {"answered", "api error"}

\* how an UploadFile call ends: the step that fails (0 for none) and, for a
\* request that was sent, what became of it
UploadExits ==
    {[failing |-> f, outcome |-> "none"] : f \in 1 .. 3}
      \cup {[failing |-> 4, outcome |-> o] : o \in {"request failed", "context canceled"}}
      \cup {[failing |-> 0, outcome |-> o] : o \in {"answered", "status 403"}}

\* one request through doJSON and its kin, on the http.Client `hc`
Request(hc, op, method, seconds, outcome) ==
    /\ client # <<>>
    /\ Len(requests) < MaxRequests
    /\ requests' = Append(requests,
            doJSONWithHeadersAndClient(client[1], hc, op, method, seconds, outcome))
    /\ UNCHANGED <<pc, inputs, rootVars, libVars, pollVars, cancelled, cancelAt, cmdErr,
                   rendered, lastErr, log, idVars, httpClient, uploads>>

\* client.GetBuild / GetBuildByURL
GetBuild(outcome) == Request(httpClient, "GetBuild", "GET", 0, outcome)

\* client.WaitBuild / WaitBuildByURL(ctx, url, timeoutSeconds)
WaitBuild(timeoutSeconds, outcome) ==
    Request(waitClient(httpClient, timeoutSeconds), "WaitBuild", "GET",
            IF timeoutSeconds > 0 THEN timeoutSeconds ELSE 0, outcome)

\* client.CreateUpload(ctx, appID, params)
CreateUpload(outcome) ==
    /\ Len(requests) < MaxRequests
    /\ CreateUploadWithOptions(<<>>, outcome)

\* client.CompleteUpload(ctx, appID, buildID)
CompleteUpload(outcome) == Request(httpClient, "CompleteUpload", "POST", 0, outcome)

\* client.UploadFile(ctx, uploadURL, filePath, contentType)
UploadFile(exit) ==
    /\ client # <<>>
    /\ Len(uploads) < MaxRequests
    /\ Len(requests) < MaxRequests
    /\ LET taken == StepsTaken(exit.failing)
       IN /\ uploads' = Append(uploads, taken \o Deferred(taken))
          /\ requests' = IF Len(taken) = Len(uploadSteps)
                          THEN Append(requests, uploadRequest(httpClient, exit.outcome))
                          ELSE requests
    /\ UNCHANGED <<pc, inputs, rootVars, libVars, pollVars, cancelled, cancelAt, cmdErr,
                   rendered, lastErr, log, idVars, httpClient>>

\* a client made by NewClient around an http.Client of any timeout
ApiInit ==
    /\ NoCommand
    /\ sent = <<>>
    /\ records = {}
    /\ uuids = 0
    /\ values = Map(<<>>)
    /\ lines = <<>>
    /\ buildResp = EmptyBuildResponse
    /\ out = <<>>
    /\ id = [value |-> 0]
    /\ NothingEncoded
    /\ httpClient \in [Timeout : HTTPTimeouts]
    /\ requests = <<>>
    /\ uploads = <<>>

ApiNext ==
    \/ \E outcome \in RequestOutcomes : GetBuild(outcome)
    \/ \E seconds \in WaitSecondsInputs, outcome \in RequestOutcomes : WaitBuild(seconds, outcome)
    \/ \E outcome \in {"answered", "request lost"} : CreateUpload(outcome)
    \/ \E exit \in UploadExits : UploadFile(exit)
    \/ \E outcome \in RequestOutcomes : CompleteUpload(outcome)

\* a program that calls the operations of one client in any order
ApiSpec == ApiInit /\ [][ApiNext]_vars

----------------------------------------------------------------------------
(* Claims *)

\* the largest element of a set of numbers
Max(S) == CHOOSE x \in S : \A y \in S : y <= x

\* the last n entries of the log
LastEvents(n) == SubSeq(log, Len(log) - n + 1, Len(log))

\* C1: a status query that answers with a status other than "processing"
\* (failed, created, available or a value the client does not know) ends the
\* loop at once: pollBuildStatus has returned exactly that response with a nil
\* error, and after the query's return nothing of the loop follows (no query,
\* no progress line, no sleep), only the rendering of the result.
C1_TerminalStatusReturnsAtOnce ==
    (resp.status \in Statuses /\ resp.status # "processing") =>
        /\ pc = "done"
        /\ pollRet = [returned |-> TRUE, resp |-> resp, err |-> NoErr, at |-> now]
        /\ Len(log) >= 2
        /\ LastEvents(2) = <<"query ok", "render">>

\* an unknown status ends a wait that has already slept once
C1_Witness ==
    /\ pc = "done"
    /\ resp.status = "archived"
    /\ pollRet.resp = resp
    /\ CountOf(log, "sleep") = 1

\* C2: with a deadline set, a "processing" response that arrives when the
\* deadline has elapsed is returned unchanged with a nil error; RunE goes on to
\* render it.
C2_ElapsedDeadlineReturnsLastResponse ==
    [][(/\ pc = "querying"
        /\ resp'.status = "processing"
        /\ ~IsZero(deadline)
        /\ now' >= deadline)
       => (/\ pollRet' = [returned |-> TRUE, resp |-> resp', err |-> NoErr, at |-> now']
           /\ rendered' = "build"
           /\ pc' = "done")]_vars

\* a wait with a deadline has returned a "processing" response without error
C2_Witness ==
    /\ timeout > 0
    /\ pollRet.returned
    /\ pollRet.resp.status = "processing"
    /\ pollRet.err = NoErr
    /\ pollRet.at >= deadline
    /\ cmdErr = NoErr

\* C3: the deadline bounds the wait.  A "processing" response is returned no
\* earlier than the deadline and no later than the deadline plus the lateness of
\* one timer and the duration of one status query (with a 2 s timeout and an
\* immediate server: 2 s after entry, although the nominal interval is 5 s);
\* and with a positive timeout pollBuildStatus eventually returns, whatever the
\* server answers.
C3_DeadlineBoundsTheWait ==
    /\ [](/\ pollRet.returned
          /\ timeout > 0
          /\ pollRet.err = NoErr
          /\ pollRet.resp.status = "processing"
          => /\ pollRet.at - pollStart >= timeout * 1000
             /\ pollRet.at - pollStart <= timeout * 1000 + Max(TimerLags) + Max(QueryDurations))
    /\ ((pc = "querying" /\ timeout > 0) ~> pollRet.returned)

\* timeout 2 s, nominal interval 5 s, a server that answers "processing" at once
\* and sends no hint: the second query is made at the deadline and its answer
\* is returned 2 s after entry
C3_Witness ==
    /\ timeout = 2
    /\ pollRet.returned
    /\ pollRet.err = NoErr
    /\ pollRet.resp = [status |-> "processing", PollAfterMs |-> <<>>]
    /\ pollRet.at - pollStart = 2000
    /\ CountOf(log, "query") = 2

\* C4: while the loop sleeps, the duration it handed to the timer is the last
\* response's PollAfterMs (in ms) when that is present and positive, else the
\* nominal 5 s; with a deadline set it is cut down to the time remaining, so it
\* never exceeds it.
C4_SleepIsHintOrNominalClamped ==
    pc = "sleeping" =>
        LET hint == resp.PollAfterMs
            base == IF hint # <<>> /\ hint[1] > 0 THEN hint[1] ELSE 5000
        IN  /\ nextInterval = IF deadline # 0 /\ base > deadline - now
                              THEN deadline - now
                              ELSE base
            /\ deadline # 0 => nextInterval <= deadline - now
            /\ nextInterval > 0

\* a hint of 6 s cut down to the time remaining until the deadline
C4_Witness ==
    /\ pc = "sleeping"
    /\ resp.PollAfterMs = <<6000>>
    /\ deadline # 0
    /\ nextInterval = deadline - now
    /\ nextInterval < 5000

\* C5 as stated: after a "processing" response with PollAfterMs = 100 the next
\* status query is made no sooner than 100 ms later.
C5_NextQueryNoSoonerThanHint ==
    [][(pc = "sleeping" /\ pc' = "querying" /\ resp.PollAfterMs = <<100>>)
       => now' - now >= 100]_vars

\* C5, amended: after a "processing" response with PollAfterMs = 100 the next
\* status query is made no sooner than 100 ms later or, when a deadline is set
\* and less than 100 ms remain until it, no sooner than that remaining time; the
\* timer is never set from the nominal interval on that step.
C5_NextQueryNoSoonerThanHintOrDeadline ==
    [][(pc = "sleeping" /\ pc' = "querying" /\ resp.PollAfterMs = <<100>>)
       => LET left == deadline - now
              pace == IF deadline # 0 /\ left < 100 THEN left ELSE 100
          IN  /\ now' - now >= pace
              /\ nextInterval = pace]_vars

\* a hint of 100 ms with 50 ms left until the deadline: the timer is set to 50 ms
C5_Witness ==
    /\ pc = "sleeping"
    /\ resp.PollAfterMs = <<100>>
    /\ deadline - now = 50
    /\ nextInterval = 50
    /\ ~cancelled

\* C6: with timeout = 0 there is no deadline, and pollBuildStatus returns only a
\* response whose status is not "processing", or an error (a failed query, a
\* cancelled context); it never returns a "processing" response.
C6_ZeroTimeoutHasNoDeadline ==
    timeout = 0 =>
        /\ deadline = 0
        /\ pollRet.returned =>
              \/ pollRet.err \in CallErrors \cup {ErrCanceled, "wait url is empty"}
              \/ pollRet.err = NoErr /\ pollRet.resp.status \in Statuses \ {"processing"}

\* without a deadline the loop is still asleep after its third "processing"
\* answer, more than 10 s after entry
C6_Witness ==
    /\ timeout = 0
    /\ pc = "sleeping"
    /\ CountOf(log, "query") >= 3
    /\ now - pollStart >= 10000

\* C7: a failed status query ends the wait at once: pollBuildStatus returns the
\* zero response and the query's own error, RunE returns that error, and the
\* query's failure is the last entry of the log (no query, progress line, sleep
\* or rendering after it).
C7_QueryFailureAbortsWait ==
    CountOf(log, "query failed") > 0 =>
        /\ pc = "done"
        /\ lastErr # NoErr
        /\ pollRet = [returned |-> TRUE, resp |-> EmptyResponse, err |-> lastErr, at |-> now]
        /\ cmdErr = lastErr
        /\ rendered = "none"
        /\ LastEvents(1) = <<"query failed">>

\* the second status query fails with an API error
C7_Witness ==
    /\ pc = "done"
    /\ lastErr = "api error"
    /\ pollRet.err = "api error"
    /\ CountOf(log, "query") = 2
    /\ LastEvents(1) = <<"query failed">>

\* the log entries made after the context was cancelled
AfterCancel == SubSeq(log, cancelAt.n + 1, Len(log))

\* C8: a context cancelled while a status query is in flight or while the loop
\* sleeps aborts the wait: from then on the loop starts at most one more query
\* (the timer may win the select once), gets no answer, writes no progress line
\* and starts no sleep; and when pollBuildStatus returns, it returns the zero
\* response with the cancellation error, never a response with a nil error, and
\* RunE returns that error without rendering.
C8_CancelAbortsWait ==
    cancelAt.pc \in {"querying", "sleeping"} =>
        /\ \A i \in DOMAIN AfterCancel : AfterCancel[i] \in {"query", "query failed"}
        /\ CountOf(AfterCancel, "query") <= 1
        /\ pollRet.returned =>
              /\ pollRet.resp = EmptyResponse
              /\ pollRet.err = IF waitURL # "" /\ IsBlank(waitURL)
                               THEN "wait url is empty"
                               ELSE ErrCanceled
              /\ cmdErr = pollRet.err
              /\ rendered = "none"
              /\ pc = "done"

\* a wait cancelled during its sleep has returned the cancellation error
C8_Witness ==
    /\ cancelAt.pc = "sleeping"
    /\ pollRet.returned
    /\ pollRet.err = ErrCanceled
    /\ LastEvents(1) = <<"sleep">>

\* C9: the upload command calls create upload, transfer, complete upload and,
\* only under --wait, the status queries, in this order, each one only after the
\* call before it has returned without error; renderOutput is called last, after
\* the successful return of complete upload (no --wait) or of the final status
\* query (--wait).
C9_UploadStepsInOrder ==
    cmd = "upload" =>
        \A i \in DOMAIN log :
            /\ log[i] = "create" => i = 1
            /\ log[i] = "transfer" => i = 3 /\ log[2] = "create ok"
            /\ log[i] = "complete" => i = 5 /\ log[4] = "transfer ok"
            /\ log[i] = "query" =>
                  /\ wait
                  /\ i >= 7
                  /\ SubSeq(log, 1, 6) = <<"create", "create ok", "transfer", "transfer ok",
                                           "complete", "complete ok">>
                  /\ i > 7 => log[i - 1] = "sleep"
            /\ log[i] = "render" =>
                  /\ i = Len(log)
                  /\ pc = "done"
                  /\ IF wait
                     THEN log[i - 1] = "query ok"
                            \/ (log[i - 1] \in {"notify", "notify verbose"} /\ log[i - 2] = "query ok")
                     ELSE i = 7 /\ log[6] = "complete ok"

\* an upload with --wait that polled twice and rendered the build
C9_Witness ==
    /\ cmd = "upload"
    /\ wait
    /\ pc = "done"
    /\ rendered = "build"
    /\ CountOf(log, "query") = 2
    /\ LastEvents(1) = <<"render">>

\* C10: in the upload command a failed step (create, transfer, complete, or the
\* wait, be it a failed query or a cancelled sleep) ends the run: nothing is
\* called or rendered after it and RunE returns exactly the step's error.
C10_StepFailureAbortsUpload ==
    cmd = "upload" =>
        /\ lastErr # NoErr =>
              /\ pc = "done"
              /\ cmdErr = lastErr
              /\ rendered = "none"
              /\ LastEvents(1) \in {<<"create failed">>, <<"transfer failed">>,
                                    <<"complete failed">>, <<"query failed">>}
        /\ (pollRet.returned /\ pollRet.err # NoErr) =>
              /\ pc = "done"
              /\ cmdErr = pollRet.err
              /\ rendered = "none"
              /\ CountOf(log, "render") = 0

\* the transfer failed: complete upload was never called
C10_Witness ==
    /\ cmd = "upload"
    /\ lastErr = "request failed"
    /\ cmdErr = "request failed"
    /\ LastEvents(1) = <<"transfer failed">>
    /\ CountOf(log, "complete") = 0

\* errors of the checks a command makes on its arguments
ValidationErrors ==
    {"file path is required", "file not accessible", "only .zip archives are supported",
     "timeout must be >= 0", "timeout must be <= 300"}

\* the remote calls in l
Calls(l) == {i \in DOMAIN l : l[i] \in {"create", "transfer", "complete", "query"}}

\* C11: once the upload command has gone past its checks with a <file> whose
\* extension is not .zip in any letter case, it has returned a validation
\* error, rendered nothing, and issued no create, transfer, complete or
\* status query
C11_NonZipIsRejectedBeforeAnyCall ==
    (cmd = "upload" /\ pc # "start" /\ ToLower(Ext(FileName(file))) # ZipExt)
        => /\ pc = "done"
           /\ cmdErr \in ValidationErrors
           /\ rendered = "none"
           /\ Calls(log) = {}
           /\ log = <<>>

C11_Witness ==
    /\ cmd = "upload" /\ file = "txt" /\ pc = "done"
    /\ cmdErr = "only .zip archives are supported"
    /\ log = <<>>

\* C12: a command that has gone past its checks with a --timeout below 0 or
\* above 300 has returned a validation error without any remote call, be it
\* the wait or the upload command; so whenever a status query has been
\* issued, the timeout it carries lies in 0 .. 300
C12_TimeoutOutOfRangeIsRejected ==
    /\ (pc \notin {"prerun", "start"} /\ (timeout < 0 \/ timeout > 300))
            => /\ pc = "done"
               /\ cmdErr \in ValidationErrors
               /\ Calls(log) = {}
    /\ CountOf(log, "query") > 0 => timeout \in 0 .. 300

C12_Witness ==
    /\ timeout = 301 /\ cmd = "wait" /\ pc = "done"
    /\ cmdErr = "timeout must be <= 300"

\* the accepted end of the range: a status query carrying timeout 300
C12_WitnessLimit == timeout = 300 /\ cmd = "upload" /\ CountOf(log, "query") = 1

\* the key NewClient is given
GivenKey == ResolveAPIKey(apiKeyFlag, apiKeyEnv)

\* C13: built with an empty or whitespace-only key, the client does not exist
\* and the command has failed with the missing-key error before any remote
\* call; whenever a remote call has been issued, a client exists and the key
\* it holds has a character that is not whitespace
C13_BlankKeyBuildsNoClient ==
    /\ (pc # "prerun" /\ \A i \in DOMAIN GivenKey : GivenKey[i] \in {" ", "\t", "\n"})
            => /\ client = <<>>
               /\ pc = "done"
               /\ cmdErr = "api key is required: set --api-key or TWINKLE_API_KEY"
               /\ log = <<>>
    /\ Calls(log) # {}
            => /\ client # <<>>
               /\ \E i \in DOMAIN client[1].apiKey : client[1].apiKey[i] \notin {" ", "\t", "\n"}

C13_Witness ==
    /\ apiKeyFlag = <<"\t", " ">> /\ apiKeyEnv = <<"e">>
    /\ pc = "done" /\ client = <<>> /\ log = <<>>
    /\ cmdErr = "api key is required: set --api-key or TWINKLE_API_KEY"

\* s has a character that is not whitespace
HasText(s) == \E i \in DOMAIN s : s[i] \notin {" ", "\t", "\n"}

\* s from its first to its last character that is not whitespace
Stripped(s) ==
    LET text == {i \in DOMAIN s : s[i] \notin {" ", "\t", "\n"}}
    IN IF text = {} THEN <<>>
       ELSE SubSeq(s, CHOOSE i \in text : \A j \in text : i <= j,
                      CHOOSE i \in text : \A j \in text : j <= i)

\* C14: two create-upload calls given the same idempotency token (one that
\* is not blank) send the same key; against a server that keeps one record
\* per key both resolve to the same build identifier when answered, and the
\* server holds at most one record for them
C14_SameTokenSameBuild ==
    \A i, j \in DOMAIN sent :
        (i < j /\ sent[i].given = sent[j].given /\ HasText(sent[i].given))
            => /\ sent[i].key = sent[j].key
               /\ (sent[i].outcome = "answered" /\ sent[j].outcome = "answered")
                    => sent[i].build = sent[j].build /\ sent[i].build > 0
               /\ Cardinality({r \in records : r.key \in {sent[i].key, sent[j].key}}) <= 1

\* a retry after a lost answer resolves to the build of the first attempt,
\* while another build exists
C14_Witness ==
    /\ Len(sent) = 3
    /\ sent[1].given = <<"b">> /\ sent[1].outcome = "answered"
    /\ sent[2].given = <<"a">> /\ sent[2].outcome = "response lost"
    /\ sent[3].given = <<"a">> /\ sent[3].outcome = "answered" /\ sent[3].build = 2
    /\ Cardinality(records) = 2

\* C15: every create-upload request carries a non-empty Idempotency-Key: the
\* given key without its surrounding whitespace when one is given and is not
\* blank; otherwise a generated one, and two requests made without an
\* explicit key never carry the same key
C15_EveryCreateCarriesAKey ==
    /\ \A i \in DOMAIN sent :
        /\ sent[i].key # <<>>
        /\ HasText(sent[i].given) => sent[i].key = Stripped(sent[i].given)
    /\ \A i, j \in DOMAIN sent :
        (i # j /\ ~HasText(sent[i].given) /\ ~HasText(sent[j].given))
            => sent[i].key # sent[j].key

C15_Witness ==
    /\ Len(sent) = 3
    /\ sent[1].given = <<>> /\ sent[2].given = <<" ">>
    /\ sent[1].key # sent[2].key
    /\ sent[3].given = <<" ", "a", "\n">> /\ sent[3].key = <<"a">>

\* the returns of failed calls in l
Failures(l) ==
    {i \in DOMAIN l :
        l[i] \in {"create failed", "transfer failed", "complete failed", "query failed"}}

\* C16: within one invocation create, transfer and complete are each
\* requested at most once and no call follows a failed one; a status query
\* other than the first is issued only from the sleep that followed a
\* successfully returned "processing" response
C16_NoCallIsRetried ==
    /\ [](/\ CountOf(log, "create") <= 1
          /\ CountOf(log, "transfer") <= 1
          /\ CountOf(log, "complete") <= 1
          /\ \A i \in Failures(log) : \A j \in Calls(log) : j < i)
    /\ [][(CountOf(log, "query") > 0 /\ CountOf(log', "query") > CountOf(log, "query"))
            => /\ CountOf(log', "query") = CountOf(log, "query") + 1
               /\ pc = "sleeping"
               /\ resp.status = "processing"
               /\ lastErr = NoErr
               /\ LastEvents(1) = <<"sleep">>
               /\ \E n \in DOMAIN log :
                    /\ log[n] = "query ok"
                    /\ \A m \in n + 1 .. Len(log) : log[m] \in {"notify", "notify verbose", "sleep"}]_vars

\* an upload that went through its three steps and is at its third status query
C16_Witness ==
    /\ cmd = "upload"
    /\ CountOf(log, "create") = 1 /\ CountOf(log, "transfer") = 1 /\ CountOf(log, "complete") = 1
    /\ CountOf(log, "query") = 3 /\ CountOf(log, "query ok") = 2
    /\ pc = "querying"

\* the lines in o written with one of the formats fs
LinesOf(o, fs) == {i \in DOMAIN o : o[i].format \in fs}

\* the formats of the appcast narrative
AppcastFormats ==
    {"Feed updated: %s", "Awaiting manual publication", "Appcast status: %s",
     "  Message: %s", "  Feed URL: %s", "  Published At: %s", "  URL: %s"}

\* C17: the rendering of a response whose build status is "failed" has no
\* line of the appcast narrative (feed updated, awaiting manual publication,
\* appcast status, message, feed URL, publication time, URL), verbose or
\* not, whatever the appcast holds
C17_FailedHasNoAppcastNarrative ==
    (rendered = "build" /\ buildResp.Build.Status = "failed")
        => LinesOf(out, AppcastFormats) = {}

\* a verbose rendering of a failed build whose appcast is published
C17_Witness ==
    /\ rendered = "build" /\ verbose
    /\ buildResp.Build.Status = "failed"
    /\ buildResp.Appcast.Status = "published"
    /\ buildResp.Appcast.Message # ""
    /\ out[1].format = "Build %d failed"
    /\ LinesOf(out, {"  Version: %s"}) # {}

RECURSIVE Leaves(_)
\* the leaves of an error tree: its scalars, and its mappings that carry a
\* string message
Leaves(value) ==
    CASE value.t = "map" ->
            IF "message" \in DOMAIN value.v /\ value.v["message"].t = "string" THEN 1
            ELSE LET RECURSIVE sum(_)
                     sum(D) == IF D = {} THEN 0
                               ELSE LET k == CHOOSE k \in D : TRUE
                                    IN Leaves(value.v[k]) + sum(D \ {k})
                 IN sum(DOMAIN value.v)
      [] value.t \in {"list", "strings"} ->
            IF value.v = <<>> THEN 0
            ELSE (IF value.t = "list" THEN Leaves(Head(value.v)) ELSE 1)
                    + Leaves([value EXCEPT !.v = Tail(value.v)])
      [] OTHER -> 1

\* the texts of the ErrorDetail lines of o, in order
Diagnostics(o) ==
    LET RECURSIVE pick(_)
        pick(l) == IF l = <<>> THEN <<>>
                   ELSE (IF Head(l).style = "ErrorDetail" THEN <<Head(l).args[1]>> ELSE <<>>)
                            \o pick(Tail(l))
    IN pick(o)

\* C18: the rendering of a response with status "failed" whose
\* ProcessingErrors is present has one diagnostic line per leaf of the tree;
\* when the tree has no leaf, the empty tree included, the diagnostics are
\* the one line "unknown error"
C18_FailedShowsALinePerLeaf ==
    (/\ rendered = "build"
     /\ buildResp.Build.Status = "failed"
     /\ buildResp.Build.Metadata # <<>>
     /\ buildResp.Build.Metadata[1].ProcessingErrors # <<>>)
        => LET tree == buildResp.Build.Metadata[1].ProcessingErrors[1]
           IN IF Leaves(tree) = 0 THEN Diagnostics(out) = <<"unknown error">>
              ELSE Len(Diagnostics(out)) = Leaves(tree)

\* what the rendering does hold to: C18 for every tree but the empty mapping,
\* for which no diagnostic line is written at all
C18_ExceptTheEmptyTree ==
    (/\ rendered = "build"
     /\ buildResp.Build.Status = "failed"
     /\ buildResp.Build.Metadata # <<>>
     /\ buildResp.Build.Metadata[1].ProcessingErrors # <<>>)
        => LET tree == buildResp.Build.Metadata[1].ProcessingErrors[1]
           IN IF tree = Map(<<>>) THEN Diagnostics(out) = <<>>
              ELSE IF Leaves(tree) = 0 THEN Diagnostics(out) = <<"unknown error">>
              ELSE Len(Diagnostics(out)) = Leaves(tree)

\* a failed build with the empty error tree, rendered without any diagnostic
C18_Witness ==
    /\ rendered = "build"
    /\ buildResp.Build.Status = "failed"
    /\ buildResp.Build.Metadata # <<>>
    /\ buildResp.Build.Metadata[1].ProcessingErrors = <<Map(<<>>)>>
    /\ Diagnostics(out) = <<>>

\* C19: the rendering of a response whose build status is "processing" has
\* no feed-updated line and no appcast message line, verbose or not,
\* whatever the appcast holds
C19_ProcessingHasNoPublicationMessage ==
    (rendered = "build" /\ buildResp.Build.Status = "processing")
        => LinesOf(out, {"Feed updated: %s", "  Message: %s"}) = {}

\* a processing build rendered with the feed-updated line of its appcast
C19_Witness ==
    /\ rendered = "build" /\ ~verbose
    /\ buildResp.Build.Status = "processing"
    /\ buildResp.Appcast.Status = "published"
    /\ Len(out) = 2
    /\ out[2] = Line("Successf", "Feed updated: %s", <<"https://example.com/feed.xml">>)

\* C20: two calls of formatProcessingErrors on the same tree return the same
\* lines in the same order, whatever order the runtime iterated the maps in
\* during either call
C20_SameTreeSameLines == lines # <<>> => lines[1] = lines[2]

\* a tree with two keys, given in an order that is not the sorted one
C20_Witness ==
    /\ values = Map([signing |-> List(<<Str("bad"), Num(5)>>),
                     bundle |-> Map([message |-> Str("bad"), step |-> Str("sign")])])
    /\ lines = <<<<"sign: bad", "signing: bad", "signing: 5">>,
                 <<"sign: bad", "signing: bad", "signing: 5">>>>

\* C21 as stated: the result of formatProcessingErrors has at least one
\* line, and it is the one line "unknown error" if and only if the tree has
\* no leaf, that is the traversal emitted no line
C21_SentinelIffNoLine ==
    lines # <<>>
        => /\ Len(lines[1]) >= 1
           /\ lines[1] = <<"unknown error">> <=> Leaves(values) = 0

\* C21, amended: the result has at least one line; it is the one line
\* "unknown error" if the traversal emitted no line, and otherwise it has the
\* lines of the traversal, one per leaf (which may spell "unknown error"
\* themselves)
C21_NeverZeroLines ==
    lines # <<>>
        => /\ Len(lines[1]) >= 1
           /\ Leaves(values) = 0 => lines[1] = <<"unknown error">>
           /\ Leaves(values) > 0 => Len(lines[1]) = Leaves(values)

\* a tree of an empty sequence and an empty mapping, formatted
C21_Witness ==
    /\ values = Map([bundle |-> List(<<>>), signing |-> Map(<<>>)])
    /\ lines # <<>>
    /\ lines[1] = <<"unknown error">>

\* C22: decoding the string "42" and decoding the number 42 both give 42;
\* an encoded BuildID is the bare decimal integer, with no quote in it; and
\* decoding what a BuildID was encoded to gives the BuildID back
C22_BuildIDRoundTrips ==
    /\ (decoded # <<>> /\ data \in {<<"4", "2">>, <<"\"", "4", "2", "\"">>})
            => decoded = [value |-> 42, err |-> NoErr]
    /\ marshalled # <<>>
            => /\ marshalled.err = NoErr
               /\ \A i \in DOMAIN marshalled.data :
                    marshalled.data[i] \in {"0", "1", "2", "3", "4", "5", "6", "7", "8", "9"}
                        \/ (i = 1 /\ marshalled.data[i] = "-")
    /\ (marshalled # <<>> /\ decoded # <<>> /\ data = marshalled.data)
            => decoded = [value |-> id.value, err |-> NoErr]

\* a negative identifier of three digits, encoded and decoded again
C22_Witness ==
    /\ id.value = -105
    /\ marshalled # <<>> /\ marshalled.data = <<"-", "1", "0", "5">>
    /\ data = marshalled.data
    /\ decoded = [value |-> -105, err |-> NoErr]

\* the string form decoded
C22_WitnessString ==
    data = <<"\"", "4", "2", "\"">> /\ decoded = [value |-> 42, err |-> NoErr]

\* the requests of the wait variants
WaitRequests == {i \in DOMAIN requests : requests[i].op = "WaitBuild"}

\* C23: the http.Client timeout of every wait request is longer than the long
\* poll asked for: timeoutSeconds + 10 seconds for timeoutSeconds > 0, and at
\* least 40 seconds without one, whatever the timeout of the base client
C23_WaitTimeoutExceedsLongPoll ==
    \A i \in WaitRequests :
        /\ requests[i].Timeout > requests[i].timeout * Second
        /\ requests[i].timeout > 0 => requests[i].Timeout = (requests[i].timeout + 10) * Second
        /\ requests[i].timeout = 0 => requests[i].Timeout >= 40 * Second

\* a base client of 5 seconds: a wait without a timeout goes out with 40
\* seconds, one of 300 seconds with 310
C23_Witness ==
    /\ httpClient.Timeout = 5 * Second
    /\ Len(requests) = 2
    /\ requests[1].op = "WaitBuild" /\ requests[1].timeout = 0 /\ requests[1].Timeout = 40 * Second
    /\ requests[2].op = "WaitBuild" /\ requests[2].timeout = 300 /\ requests[2].Timeout = 310 * Second

\* a base client of 60 seconds keeps its timeout for a wait without one
C23_WitnessLonger ==
    /\ httpClient.Timeout = 60 * Second
    /\ \E i \in WaitRequests : requests[i].timeout = 0 /\ requests[i].Timeout = 60 * Second

\* the steps of one UploadFile call that are `step`
StepsOf(call, step) == {j \in DOMAIN call : call[j].step = step}

\* C24: the file of a transfer is opened inside UploadFile, before the
\* request is built and sent, and whichever way the call ends (a failing
\* Stat, a request that cannot be built, a failed or cancelled transfer, a
\* non-2xx answer, success) a file that was opened is closed once, as the last
\* thing the call does
C24_HandleClosedOnEveryExit ==
    \A i \in DOMAIN uploads :
        LET call == uploads[i]
            opened == {j \in StepsOf(call, "os.Open") : call[j].ok}
        IN /\ call[1].step = "os.Open"
           /\ Cardinality(StepsOf(call, "file.Close")) = Cardinality(opened)
           /\ opened # {} => call[Len(call)].step = "file.Close"
           /\ \A j \in StepsOf(call, "httpClient.Do") :
                /\ \E k \in opened : k < j
                /\ \A k \in StepsOf(call, "file.Close") : k > j

\* a call that ended at Stat and a call whose transfer was cancelled
C24_Witness ==
    /\ Len(uploads) = 2
    /\ Len(uploads[1]) = 3 /\ ~uploads[1][2].ok /\ uploads[1][3].step = "file.Close"
    /\ Len(uploads[2]) = 5 /\ ~uploads[2][4].ok /\ uploads[2][5].step = "file.Close"
    /\ \E i \in DOMAIN requests :
            requests[i].op = "UploadFile" /\ requests[i].outcome = "context canceled"

\* a call whose answer was not a 2xx
C24_WitnessStatus ==
    \E i \in DOMAIN uploads, j \in DOMAIN requests :
        /\ Len(uploads[i]) = 6 /\ uploads[i][6].step = "file.Close"
        /\ requests[j].op = "UploadFile" /\ requests[j].outcome = "status 403"

\* C25: every request of the client, whatever the operation, has the header
\* Authorization: Bearer <api_key>
C25_AllCallsCarryTheBearer ==
    client # <<>> =>
        \A i \in DOMAIN requests : requests[i].Authorization = Bearer(client[1].apiKey)

\* C25, as the code has it: every request to the API (fetch status, wait,
\* create upload, complete upload) has the header Authorization: Bearer
\* <api_key>; the transfer to the upload URL has no Authorization header
C25_BearerOnEveryAPIRequest ==
    client # <<>> =>
        \A i \in DOMAIN requests :
            IF requests[i].op = "UploadFile"
            THEN requests[i].Authorization = <<>>
            ELSE requests[i].Authorization = Bearer(client[1].apiKey)

\* a transfer sent after a create-upload request
C25_Witness ==
    /\ Len(requests) = 2
    /\ requests[1].op = "CreateUpload" /\ requests[1].Authorization = Bearer(SomeKey)
    /\ requests[2].op = "UploadFile" /\ requests[2].Authorization = <<>>

\* where the log has a "still processing" line
NotifyAt == {i \in DOMAIN log : log[i] \in {"notify", "notify verbose"}}

\* pollBuildStatus has returned a "processing" response: the deadline had elapsed
ReturnedProcessing ==
    pollRet.returned /\ pollRet.err = NoErr /\ pollRet.resp.status = "processing"

\* the "processing" responses so far: each led to a sleep or to the return
\* on the elapsed deadline
ProcessingSeen == CountOf(log, "sleep") + (IF ReturnedProcessing THEN 1 ELSE 0)

\* C26: every status query that returns "processing" is followed by a
\* "still processing" line, the one returned on the elapsed deadline too
C26_EveryProcessingIsNotified ==
    /\ \A i \in NotifyAt : i > 1 /\ log[i - 1] = "query ok"
    /\ Cardinality(NotifyAt) = ProcessingSeen

\* C26, as the code has it: without --json every "processing" response is
\* followed at once by one "still processing" line (the verbose one under
\* --verbose), the response returned on the elapsed deadline included; under
\* --json no such line is written
C26_ProcessingIsNotifiedUnlessJSON ==
    /\ \A i \in NotifyAt :
            i > 1 /\ log[i - 1] = "query ok" /\ log[i] = StillProcessing(verbose)
    /\ Cardinality(NotifyAt) = IF jsonOut THEN 0 ELSE ProcessingSeen
    /\ (ReturnedProcessing /\ ~jsonOut) =>
            \E i \in NotifyAt : \A j \in i + 1 .. Len(log) : log[j] # "query ok"

\* two "processing" responses, the second returned on the elapsed deadline,
\* both notified
C26_Witness ==
    /\ ~jsonOut
    /\ ReturnedProcessing
    /\ CountOf(log, "sleep") = 1
    /\ Cardinality(NotifyAt) = 2

\* under --json a "processing" response returned without a line
C26_WitnessJSON == jsonOut /\ ReturnedProcessing /\ NotifyAt = {}

\* C27: an upload without --wait makes no status query and, when it
\* succeeds, has rendered the completion acknowledgment; an upload with --wait
\* that succeeds has rendered the response pollBuildStatus returned and not
\* the acknowledgment; a successful upload has rendered exactly once
C27_OneOutcomeShape ==
    cmd = "upload" =>
        /\ ~wait => CountOf(log, "query") = 0 /\ ~pollRet.returned /\ rendered # "build"
        /\ wait => rendered # "complete"
        /\ (pc = "done" /\ rendered # "none") =>
              /\ CountOf(log, "render") = 1
              /\ LastEvents(1) = <<"render">>
              /\ rendered = IF wait THEN "build" ELSE "complete"
              /\ wait => pollRet.returned /\ pollRet.err = NoErr /\ CountOf(log, "query") >= 1
        /\ (pc = "done" /\ cmdErr = NoErr) => rendered # "none"

\* an upload without --wait that rendered the acknowledgment
C27_Witness ==
    /\ cmd = "upload"
    /\ ~wait
    /\ pc = "done"
    /\ cmdErr = NoErr
    /\ rendered = "complete"
    /\ log = <<"create", "create ok", "transfer", "transfer ok", "complete", "complete ok",
               "render">>

\* an upload with --wait that rendered the response of its second query
C27_WitnessWait ==
    /\ cmd = "upload"
    /\ wait
    /\ pc = "done"
    /\ cmdErr = NoErr
    /\ rendered = "build"
    /\ CountOf(log, "query") = 2

\* a mapping whose "message" is a string
MessageMapping(x) == x.t = "map" /\ "message" \in DOMAIN x.v /\ x.v["message"].t = "string"

\* the line C28 gives a mapping m with a string message
ShortcutLine(m) ==
    IF "step" \in DOMAIN m /\ m["step"].t = "string" /\ m["step"].v # ""
    THEN m["step"].v \o ": " \o m["message"].v
    ELSE m["message"].v

\* C28: a mapping with a string "message" gives exactly one line, "<step>:
\* <message>" with a non-empty string "step" beside it and "<message>" alone
\* otherwise, whatever other keys it has and whatever keys or sequence lie
\* above it
C28_MessageShortcut ==
    lines # <<>> =>
        /\ MessageMapping(values) => lines[1] = <<ShortcutLine(values.v)>>
        /\ ~MessageMapping(values) =>
            \A k \in DOMAIN values.v :
                LET below == values.v[k] IN
                /\ MessageMapping(below) =>
                      /\ Len(lines[1]) = Leaves(values)
                      /\ \E i \in DOMAIN lines[1] : lines[1][i] = ShortcutLine(below.v)
                      /\ DOMAIN values.v = {k} => lines[1] = <<ShortcutLine(below.v)>>
                /\ (DOMAIN values.v = {k} /\ below.t = "list" /\ Len(below.v) = 1
                        /\ MessageMapping(below.v[1])) =>
                      lines[1] = <<ShortcutLine(below.v[1].v)>>

\* a mapping below a key, with message, step and another key: one line,
\* without the key above and without the other key
C28_Witness ==
    /\ values = Map([signing |-> Map([message |-> Str("bad"), step |-> Str("sign"),
                                      bundle |-> Str("x")])])
    /\ lines # <<>>
    /\ lines[1] = <<"sign: bad">>

\* a step that is the empty string, and one that is no string
C28_WitnessNoStep ==
    /\ values \in {Map([message |-> Str("bad"), step |-> Str("")]),
                    Map([message |-> Str("bad"), step |-> Num(5)])}
    /\ lines # <<>>
    /\ lines[1] = <<"bad">>

RECURSIVE DropLeadingEmpty(_)
\* a path without the empty keys it starts with
DropLeadingEmpty(path) ==
    IF path # <<>> /\ Head(path) = "" THEN DropLeadingEmpty(Tail(path)) ELSE path

\* the text of a scalar
ScalarText(x) ==
    CASE x.t = "string" -> x.v
      [] x.t = "number" -> Digits[x.v]
      [] OTHER -> "<nil>"

\* the line of a scalar under a prefix
LeafLine(prefix, x) == IF prefix = "" THEN ScalarText(x) ELSE prefix \o ": " \o ScalarText(x)

RECURSIVE PathLines(_, _, _)
\* the lines of a tree whose leaves are prefixed with the keys on their path,
\* joined by dots (all the keys, or all but leading empty keys), the keys of a
\* mapping taken in byte order and the elements of a sequence in their order
PathLines(x, path, allKeys) ==
    CASE MessageMapping(x) -> <<ShortcutLine(x.v)>>
      [] x.t = "map" /\ ~MessageMapping(x) ->
            LET keys == SelectSeq(StringOrder, LAMBDA k : k \in DOMAIN x.v)
            IN Concat([i \in 1 .. Len(keys) |->
                        PathLines(x.v[keys[i]], Append(path, keys[i]), allKeys)])
      [] x.t = "list" ->
            Concat([i \in 1 .. Len(x.v) |-> PathLines(x.v[i], path, allKeys)])
      [] x.t = "strings" ->
            Concat([i \in 1 .. Len(x.v) |-> PathLines(Str(x.v[i]), path, allKeys)])
      [] OTHER ->
            <<LeafLine(Join(IF allKeys THEN path ELSE DropLeadingEmpty(path), "."), x)>>

\* C29: a scalar gives "<prefix>: <scalar>", or the scalar alone without a
\* prefix; the prefix is the keys on the path from the root, joined by dots;
\* a sequence hands its prefix to its elements, whose lines come in order
C29_PrefixIsThePath ==
    (lines # <<>> /\ Leaves(values) > 0) => lines[1] = PathLines(values, <<>>, TRUE)

\* C29, as the code has it: the same, the prefix being the keys on the path
\* joined by dots once the empty keys the path starts with are left out (a
\* key is joined with a dot onto a non-empty prefix only)
C29_PrefixIsThePathPastEmptyKeys ==
    (lines # <<>> /\ Leaves(values) > 0) => lines[1] = PathLines(values, <<>>, FALSE)

\* three keys down to a scalar
C29_Witness ==
    /\ values = Map([bundle |-> Map([signing |-> Map([bundle |-> Str("bad")])])])
    /\ lines # <<>>
    /\ lines[1] = <<"bundle.signing.bundle: bad">>

\* a sequence of two scalars below a key
C29_WitnessSequence ==
    /\ values = Map([signing |-> List(<<Num(5), Str("bad")>>)])
    /\ lines # <<>>
    /\ lines[1] = <<"signing: 5", "signing: bad">>

\* the empty key above a key, and below one
C29_WitnessEmptyKey ==
    /\ values \in {Map([k \in {""} |-> Map([bundle |-> Str("bad")])]),
                    Map([bundle |-> Map([k \in {""} |-> Str("bad")])])}
    /\ lines # <<>>
    /\ lines[1] \in {<<"bundle: bad">>, <<"bundle.: bad">>}

\* a status query is in flight that was started at or after the deadline
LateQuery == pc = "querying" /\ ~IsZero(deadline) /\ now >= deadline

\* C30: with a deadline set, the deadline is the one computed at entry; the
\* loop sleeps only before the deadline and never beyond it; and a status
\* query started at or after the deadline is the last one: whatever it
\* returns, the loop starts no sleep and no query after it
C30_AtMostOneQueryPastDeadline ==
    /\ [](~IsZero(deadline) =>
            /\ deadline = pollStart + timeout * Second
            /\ pc = "sleeping" => now < deadline /\ now + nextInterval <= deadline)
    /\ [][LateQuery =>
            /\ pc' \in {"querying", "done"}
            /\ CountOf(log', "query") = CountOf(log, "query")
            /\ CountOf(log', "sleep") = CountOf(log, "sleep")
            /\ deadline' = deadline]_vars

\* a timer that fired late: the second query was started 100 ms after the
\* deadline and its "processing" answer was returned
C30_Witness ==
    /\ timeout = 1
    /\ ReturnedProcessing
    /\ pollRet.at = deadline + 100
    /\ CountOf(log, "query") = 2
    /\ CountOf(log, "sleep") = 1

====
